---- MODULE Spec2Model ----
(***************************************************************************)
(* Model of the CCTP bridge core of web3-ethereum-defi:                    *)
(*   eth_defi/cctp/attestation.py  fetch_attestation (Iris API poll loop), *)
(*                                 is_attestation_complete                 *)
(*   eth_defi/cctp/bridge.py       burn_usdc_cctp, receive_usdc_cctp,      *)
(*                                 bridge_usdc_cctp,                       *)
(*                                 bridge_usdc_cctp_parallel               *)
(*   eth_defi/cctp/monitor.py      poll_transfer_status,                   *)
(*                                 poll_transfers_parallel                 *)
(* SpecFetch is one caller of fetch_attestation against a service whose    *)
(* responses and latencies are chosen freely; Spec is one call of          *)
(* bridge_usdc_cctp_parallel with its worker pools; SpecTracker is its     *)
(* _update_phase, line by line, called from several threads; SpecSingle is *)
(* one call of bridge_usdc_cctp; SpecMonitor is one call of                *)
(* poll_transfers_parallel with its worker pool and a clock; SpecPools is  *)
(* one call that has a worker pool, of either function; SpecEquiv is       *)
(* poll_transfer_status next to fetch_attestation on the same answers;     *)
(* SpecCheck is is_attestation_complete next to fetch_attestation;         *)
(* SpecReports is the phase reports one parallel bridge call makes.        *)
(* Two helpers used around the bridge are modelled as well:                *)
(*   eth_defi/gmx/retry.py         make_gmx_api_request (SpecGmx)          *)
(*   eth_defi/hyperliquid/block.py the big-block helpers (SpecBlock)       *)
(***************************************************************************)
EXTENDS Integers, Sequences, FiniteSets, TLC

\* ------------------------------------------------------------------ bounds
\* Largest timeout argument tried, in clock ticks.
MaxTimeout == 3
\* Largest poll_interval argument tried, in clock ticks (at least 1).
MaxPoll == 2
\* Longest time one requests.get may take, in clock ticks.
MaxQueryDur == 2

\* Most destinations in one bridge_usdc_cctp_parallel call.
MaxDest == 2
\* Most status queries the attestation waits of one bridge call get answered,
\* all destinations together, before their timeouts elapse.
MaxPolls == 2

\* Most threads that call _update_phase at the same time.
MaxThreads == 2
\* Most _update_phase calls followed from a freshly set up tracker.
MaxUpdates == 2

\* Most transfers in one poll_transfers_parallel call.
MaxTransfers == 2
\* Largest timeout argument of poll_transfers_parallel tried, in clock ticks.
MaxPoolTimeout == 2
\* Longest time one requests.get of its polls may take, in clock ticks.
MaxPoolQueryDur == 1

\* Largest max_retries and largest full_cycle_retries of a GMXRetryConfig tried.
MaxRetries == 2
MaxCycles == 2

\* Most uses of the big-block helpers by one deployer: with-blocks of
\* big_blocks_enabled and of big_blocks_for_deployment, and direct calls.
MaxUses == 3

\* Most status queries answered to the attestation waits of one bridge call
\* whose phase reports are followed, all destinations together.
MaxReports == 6

\* --------------------------------------------------------------- constants
\* attestation.py:81  poll_interval: float = 5.0, the default; where a call
\* is made with it, one tick of the clock is that interval.
DefaultPollInterval == 1
\* attestation.py: HTTP_NOT_FOUND
HTTP_NOT_FOUND == 404

\* Python None (a JSON null or a missing key read with dict.get).
None == "None"

\* An argument that may be None and is otherwise not a string: <<>> for None,
\* <<v>> for the value v.
IsNone(opt) == opt = <<>>
Value(opt) == opt[1]

VARIABLES
    \* ---- fetch_attestation (attestation.py)
    fa_pc,          \* idle | loop | request | sleep | returned | timeout | http_error | transport_error
    timeout,        \* the timeout argument
    poll_interval,  \* the poll_interval argument
    on_phase_change,\* whether the on_phase_change argument is a callback (FALSE: it is None)
    clock,          \* time.time() - start_time
    attempt,        \* the local attempt
    last_phase,     \* the nonlocal last_phase
    responses,      \* what requests.get answered so far in this call, in order
    callbacks,      \* the on_phase_change calls made so far in this call: <<phase, attempt>>
    cb_at_query,    \* Len(callbacks) when the last query was issued
    last_dur,       \* how long the last requests.get took
    \* ---- bridge_usdc_cctp_parallel (bridge.py)
    destinations,   \* the destinations argument: <<[chain, amount], ...>>
    simulate,       \* the simulate argument
    test_attesters, \* the test_attesters argument: None, or the chain ids the dict has an attester for
    max_workers_arg,\* the max_workers argument: None, or an int
    max_workers,    \* the local max_workers after line 533 (0 before)
    bpc,            \* where the calling thread is
    bidx,           \* the idx of the loop the calling thread is in
    approve_tx,     \* per destination, the approve transaction: none | sent | ok | failed
    burn_tx,        \* per destination, the depositForBurn transaction
    receive_tx,     \* per destination, the receiveMessage transaction
    receive_sent,   \* per destination, the hash of the receive transaction sent
    burn_results,   \* the list burn_results
    task,           \* per destination, its Future in the current pool: new | queued (PENDING) | running | done | failed
    task_at,        \* per destination, the line its worker thread stands at in the submitted call
    task_attempt,   \* per destination, the attempt counter of its fetch_attestation call
    fetched,        \* per destination, what its fetch_attestation call returned
    indexed_results,\* the dict indexed_results
    attestation_data,   \* the list attestation_data
    receive_tx_hashes,  \* the list receive_tx_hashes
    collected,      \* the futures as_completed has yielded in the current pool, in order
    transfer_phases,\* the list transfer_phases
    poll_counts,    \* the list poll_counts
    progress_bar,   \* the tqdm bar: n, description, postfix
    results,        \* the returned list
    error,          \* the exception that left the call
    \* ---- threads inside _update_phase (bridge.py:562-582)
    lock,           \* the threading.Lock: 0 when free, else the thread holding it
    th,             \* per thread: where it is in _update_phase, its arguments and old_phase
    updates,        \* the number of _update_phase calls made so far
    \* ---- bridge_usdc_cctp (bridge.py:403-444)
    s_pc,           \* where the call is
    s_chain,        \* dest_web3.eth.chain_id
    s_amount,       \* the amount argument
    s_simulate,     \* the simulate argument
    s_attester,     \* whether the test_attester argument is an account (FALSE: it is None)
    s_sent,         \* the calls sent as transactions so far, in order
    s_approve,      \* the approve transaction: none | sent | ok | failed
    s_burn,         \* the depositForBurn transaction
    s_receive,      \* the receiveMessage transaction
    s_att,          \* the (message, attestation) pair _get_attestation returned
    s_result,       \* the returned CCTPBridgeResult
    s_error,        \* the step whose exception left the call
    \* ---- poll_transfers_parallel (monitor.py)
    m_pc,           \* where the calling thread is
    transfers,      \* the transfers argument: <<[source_domain, transaction_hash], ...>>
    m_timeout,      \* the timeout argument
    m_poll,         \* the poll_interval argument
    m_workers,      \* max_workers after line 298
    m_now,          \* time.time(), counted from the call
    m_idx,          \* the idx of the submit loop
    m_task,         \* per transfer, its future: new | queued (PENDING) | running | done | timeout | error
    m_at,           \* per transfer, the line its worker thread stands at in poll_transfer_status
    m_start,        \* per transfer, start_time of its poll_transfer_status call
    m_wake,         \* per transfer, when its wait ends: requests.get is answered, time.sleep is over
    m_end,          \* per transfer, when its poll_transfer_status call ended
    m_value,        \* per transfer, the CCTPTransferStatus its call returned
    m_results,      \* the dict results
    m_collected,    \* the futures as_completed has yielded, in order
    m_returned,     \* the returned list
    m_error,        \* the exception that left the call
    \* ---- poll_transfer_status (monitor.py:220-255), next to fetch_attestation
    p_pc,           \* idle | loop | request | sleep | returned | timeout | http_error | transport_error
    p_query,        \* the source_domain and transaction_hash arguments
    p_timeout,      \* the timeout argument
    p_poll,         \* the poll_interval argument
    p_clock,        \* time.time() - start_time
    p_attempt,      \* the local attempt
    p_hist,         \* what the service answered so far, in order: [resp, d]
    p_value,        \* the returned CCTPTransferStatus
    \* ---- is_attestation_complete (attestation.py:245-265)
    c_pc,           \* idle | call | got | json | except | returned | raised
    c_query,        \* the source_domain and transaction_hash arguments
    c_resp,         \* what the service answers to a query about this transfer now
    c_queries,      \* the requests.get calls made so far
    c_exc,          \* the exception raised inside the try block
    c_result,       \* the returned bool
    \* ---- make_gmx_api_request (gmx/retry.py)
    g_pc,           \* idle | call | cycle | endpoint | try | request | returned | runtime_error | value_error
    g_urls,         \* primary_url, backup_url, fallback_url, fallback_url_2 (None when not configured)
    g_config,       \* retry_config
    g_cycle,        \* the cycle of the for loop at line 201
    g_ep,           \* the endpoint the cycle is at: 1 primary .. 4 fallback-2
    g_attempt,      \* the attempt of the for loop at line 107
    g_delay,        \* the local delay of _try_api_with_retries
    g_try_error,    \* the local last_error of _try_api_with_retries
    g_last_error,   \* the local last_error of make_gmx_api_request
    g_slept,        \* the seconds spent in time.sleep
    g_log,          \* the requests.get calls made so far, in order: whether they succeeded, and the parsed body
    g_result,       \* the returned JSON
    \* ---- the big-block helpers of one deployer (hyperliquid/block.py:166-399)
    bb_pc,          \* big_blocks_enabled: idle | outside | check | enable | body | finally | skipped_body | left | enter_failed
    bb_flag,        \* usingBigBlocks of the address, as Hyperliquid holds it
    bb_before,      \* the flag when the with statement of big_blocks_enabled was reached
    bb_posts_before,\* Len(bb_posts) when that with statement was reached
    bb_web3,        \* whether a web3 instance is passed to big_blocks_enabled
    bb_mainnet,     \* the is_mainnet argument the deployer passes
    bb_chain_id,    \* web3.eth.chain_id of the deployer's connection
    bb_anvil,       \* is_anvil(web3) of the deployer's connection
    bb_already,     \* the local already_enabled
    bb_raising,     \* the exception on its way out of the with statement: none | body | api
    bb_posts,       \* the evmUserModify actions posted so far: [enable, is_mainnet, out, by]
    bb_entries,     \* the with statements of big_blocks_enabled reached so far
    bb_fd,          \* the with-block of big_blocks_for_deployment: [pc, toggles, is_mainnet, inner]
    bb_returned,    \* what the last direct call of a helper returned, or "raised"
    bb_calls,       \* the direct calls and big_blocks_for_deployment blocks made so far
    \* ---- the phase reports of one bridge_usdc_cctp_parallel call (bridge.py:584-705)
    r_stage,        \* per destination: burn | burnt | submitted | polling | querying | attested | receiving | done | failed
    r_attempt       \* per destination, the attempt counter of its fetch_attestation call

fetchVars == <<fa_pc, timeout, poll_interval, on_phase_change, clock, attempt, last_phase,
               responses, callbacks, cb_at_query, last_dur>>

bridgeVars == <<destinations, simulate, test_attesters, max_workers_arg, max_workers, bpc, bidx, approve_tx, burn_tx,
                receive_tx, receive_sent, burn_results, task, task_at, task_attempt, fetched,
                indexed_results, attestation_data, receive_tx_hashes, collected,
                transfer_phases, poll_counts, progress_bar, results, error>>

lockVars == <<lock, th, updates>>

singleVars == <<s_pc, s_chain, s_amount, s_simulate, s_attester, s_sent, s_approve, s_burn, s_receive, s_att,
                s_result, s_error>>

monitorVars == <<m_pc, transfers, m_timeout, m_poll, m_workers, m_now, m_idx, m_task,
                 m_at, m_start, m_wake, m_end, m_value, m_results, m_collected,
                 m_returned, m_error>>

pollVars == <<p_pc, p_query, p_timeout, p_poll, p_clock, p_attempt, p_hist, p_value>>

\* The calls modelled on their own, outside the bridge and the monitor pool.
checkVars == <<c_pc, c_query, c_resp, c_queries, c_exc, c_result>>
gmxVars == <<g_pc, g_urls, g_config, g_cycle, g_ep, g_attempt, g_delay, g_try_error,
             g_last_error, g_slept, g_log, g_result>>
blockVars == <<bb_pc, bb_flag, bb_before, bb_posts_before, bb_web3, bb_mainnet,
               bb_chain_id, bb_anvil,
               bb_already, bb_raising, bb_posts, bb_entries, bb_fd, bb_returned, bb_calls>>
reportVars == <<r_stage, r_attempt>>
extraVars == <<pollVars, checkVars, gmxVars, blockVars, reportVars>>

\* What a step of fetch_attestation, and a step of bridge_usdc_cctp_parallel,
\* leaves alone.
notFetch == <<bridgeVars, lockVars, singleVars, monitorVars, extraVars>>
notBridge == <<fetchVars, lockVars, singleVars, monitorVars, extraVars>>

vars == <<fetchVars, bridgeVars, lockVars, singleVars, monitorVars, extraVars>>

\* ------------------------------------------------------ the Iris service
\* The first message of a 200 response: msg.get("status", "") and
\* msg.get("attestation").
IrisStatuses == {"pending_confirmations", "complete", "pending"}
IrisAttestations == {None, "", "PENDING", "0xdead"}

\* A response is its status code and, for a 200, its message list (only the
\* first message is read). The service also answers 404, 429 and 500.
OkResponses ==
    {[code |-> 200, transport |-> TRUE, messages |-> <<>>]}
    \cup {[code |-> 200, transport |-> TRUE,
           messages |-> <<[status |-> s, attestation |-> a]>>] :
             s \in IrisStatuses, a \in IrisAttestations}

ErrorResponses ==
    {[code |-> c, transport |-> TRUE, messages |-> <<>>] :
        c \in {HTTP_NOT_FOUND, 429, 500}}

\* requests.get raising requests.RequestException (no response at all).
TransportFailure == [code |-> 0, transport |-> FALSE, messages |-> <<>>]

Responses == OkResponses \cup ErrorResponses \cup {TransportFailure}

\* ------------------------------------------------ fetch_attestation, pure
\* python truthiness of msg.get("attestation")
Truthy(x) == x # None /\ x # ""

\* Mutant: 404 is not singled out, so it reaches raise_for_status.
IsNotFound_Never(resp) == FALSE

\* attestation.py:184  response.status_code == HTTP_NOT_FOUND
IsNotFound(resp) == resp.transport /\ resp.code = HTTP_NOT_FOUND

\* Mutant: only 5xx raises, a 4xx such as 429 is polled again.
RaisesForStatus_ServerOnly(resp) == resp.transport /\ resp.code >= 500

\* attestation.py:190  response.raise_for_status() raises for 4xx and 5xx
RaisesForStatus(resp) == resp.transport /\ resp.code >= 400

\* Mutant: the readiness test of is_attestation_complete, which lets "" through.
AttestationReady_NotNonePending(msg) ==
    msg.status = "complete" /\ msg.attestation \notin {None, "PENDING"}

\* attestation.py:200  status == "complete" and attestation_hex and attestation_hex != "PENDING"
AttestationReady(msg) ==
    msg.status = "complete" /\ Truthy(msg.attestation) /\ msg.attestation # "PENDING"

\* What one loop iteration does with the response of its query:
\*   next   the control point it leads to
\*   notify the phases passed to _notify, in order
HandleResponse(resp) ==
    IF ~resp.transport THEN [next |-> "transport_error", notify |-> <<>>]
    ELSE IF IsNotFound(resp) THEN [next |-> "sleep", notify |-> <<"waiting_for_indexing">>]
    ELSE IF RaisesForStatus(resp) THEN [next |-> "http_error", notify |-> <<>>]
    ELSE IF resp.messages # <<>>
         THEN LET msg == resp.messages[1] IN
              IF AttestationReady(msg)
              THEN [next |-> "returned", notify |-> <<"complete">>]
              ELSE [next |-> "sleep", notify |-> <<msg.status>>]
         ELSE [next |-> "sleep", notify |-> <<>>]

\* attestation.py:152  _notify(phase): the callback gets the current attempt
Notified(phases, att) == [i \in 1..Len(phases) |-> <<phases[i], att>>]

\* Mutant: the deadline itself does not count as elapsed.
TimedOut_Strict(elapsed, t) == elapsed > t

\* attestation.py:162  elapsed >= timeout
TimedOut(elapsed, t) == elapsed >= t

FetchTerminal == {"returned", "timeout", "http_error", "transport_error"}

\* ---------------------------------------------- fetch_attestation, actions
\* No call of poll_transfer_status is followed on its own.
PollIdle ==
    /\ p_pc = "idle"
    /\ p_query = [source_domain |-> 0, transaction_hash |-> ""]
    /\ p_timeout = 0
    /\ p_poll = 1
    /\ p_clock = 0
    /\ p_attempt = 0
    /\ p_hist = <<>>
    /\ p_value = [status |-> "", attestation |-> "None", source_domain |-> 0,
                  transaction_hash |-> ""]

\* No call of is_attestation_complete is in progress.
CheckIdle ==
    /\ c_pc = "idle"
    /\ c_query = [source_domain |-> 0, transaction_hash |-> ""]
    /\ c_resp = [code |-> 0, transport |-> FALSE, messages |-> <<>>]
    /\ c_queries = 0
    /\ c_exc = "none"
    /\ c_result = FALSE

\* No call of make_gmx_api_request is in progress.
GmxIdle ==
    /\ g_pc = "idle"
    /\ g_urls = <<>>
    /\ g_config = <<>>
    /\ g_cycle = 0
    /\ g_ep = 0
    /\ g_attempt = 0
    /\ g_delay = 0
    /\ g_try_error = "None"
    /\ g_last_error = "None"
    /\ g_slept = 0
    /\ g_log = <<>>
    /\ g_result = "None"

\* No big-block helper is in use.
BlockIdle ==
    /\ bb_pc = "idle"
    /\ bb_flag = FALSE
    /\ bb_before = FALSE
    /\ bb_posts_before = 0
    /\ bb_web3 = FALSE
    /\ bb_mainnet = FALSE
    /\ bb_chain_id = 0
    /\ bb_anvil = FALSE
    /\ bb_already = FALSE
    /\ bb_raising = "none"
    /\ bb_posts = <<>>
    /\ bb_entries = 0
    /\ bb_fd = [pc |-> "idle", toggles |-> FALSE, is_mainnet |-> FALSE, inner |-> FALSE]
    /\ bb_returned = "None"
    /\ bb_calls = 0

\* No call is followed for its phase reports.
ReportIdle ==
    /\ r_stage = <<>>
    /\ r_attempt = <<>>

ExtraIdle == PollIdle /\ CheckIdle /\ GmxIdle /\ BlockIdle /\ ReportIdle

\* No thread is inside _update_phase.
LockIdle ==
    /\ lock = 0
    /\ th = <<>>
    /\ updates = 0

\* No call of bridge_usdc_cctp is in progress.
SingleIdle ==
    /\ s_pc = "idle"
    /\ s_chain = 0
    /\ s_amount = 0
    /\ s_simulate = FALSE
    /\ s_attester = FALSE
    /\ s_sent = <<>>
    /\ s_approve = "none"
    /\ s_burn = "none"
    /\ s_receive = "none"
    /\ s_att = "none"
    /\ s_result = <<>>
    /\ s_error = "none"

\* No call of poll_transfers_parallel is in progress.
MonitorIdle ==
    /\ m_pc = "idle"
    /\ transfers = <<>>
    /\ m_timeout = 0
    /\ m_poll = 1
    /\ m_workers = 0
    /\ m_now = 0
    /\ m_idx = 0
    /\ m_task = <<>>
    /\ m_at = <<>>
    /\ m_start = <<>>
    /\ m_wake = <<>>
    /\ m_end = <<>>
    /\ m_value = <<>>
    /\ m_results = <<>>
    /\ m_collected = <<>>
    /\ m_returned = <<>>
    /\ m_error = [kind |-> "none", idx |-> 0]

\* No progress tracker is set up.
TrackerIdle ==
    /\ transfer_phases = <<>>
    /\ poll_counts = <<>>
    /\ progress_bar = [n |-> 0, total |-> 0, desc |-> <<>>, postfix |-> 0]

\* No call of bridge_usdc_cctp_parallel is in progress.
CallIdle ==
    /\ destinations = <<>>
    /\ simulate = FALSE
    /\ test_attesters = <<>>
    /\ max_workers_arg = <<>>
    /\ max_workers = 0
    /\ bpc = "idle"
    /\ bidx = 0
    /\ approve_tx = <<>>
    /\ burn_tx = <<>>
    /\ receive_tx = <<>>
    /\ receive_sent = <<>>
    /\ burn_results = <<>>
    /\ task = <<>>
    /\ task_at = <<>>
    /\ task_attempt = <<>>
    /\ fetched = <<>>
    /\ indexed_results = <<>>
    /\ attestation_data = <<>>
    /\ receive_tx_hashes = <<>>
    /\ collected = <<>>
    /\ results = <<>>
    /\ error = [kind |-> "none", idx |-> 0]

BridgeIdle == CallIdle /\ TrackerIdle

\* No call of fetch_attestation is in progress.
FetchIdle ==
    /\ fa_pc = "idle"
    /\ timeout = 0
    /\ poll_interval = 1
    /\ on_phase_change = FALSE
    /\ clock = 0
    /\ attempt = 0
    /\ last_phase = None
    /\ responses = <<>>
    /\ callbacks = <<>>
    /\ cb_at_query = 0
    /\ last_dur = 0

InitFetch == FetchIdle /\ BridgeIdle /\ LockIdle /\ SingleIdle /\ MonitorIdle /\ ExtraIdle

\* A call of fetch_attestation(timeout=t, poll_interval=p, on_phase_change=cb):
\* lines 148-158, up to and including the first _notify.
FetchStart(t, p, cb) ==
    /\ fa_pc \in {"idle"} \cup FetchTerminal
    /\ fa_pc' = "loop"
    /\ timeout' = t
    /\ poll_interval' = p
    /\ on_phase_change' = cb
    /\ clock' = 0
    /\ attempt' = 0
    /\ last_phase' = "waiting_for_indexing"
    /\ responses' = <<>>
    /\ callbacks' = IF cb THEN Notified(<<"waiting_for_indexing">>, attempt') ELSE <<>>
    /\ cb_at_query' = 0
    /\ last_dur' = 0
    /\ UNCHANGED notFetch

\* The head of the while loop, lines 161-165: raise TimeoutError or count the attempt.
LoopCheck ==
    /\ fa_pc = "loop"
    /\ IF TimedOut(clock, timeout)
       THEN /\ fa_pc' = "timeout"
            /\ UNCHANGED attempt
       ELSE /\ fa_pc' = "request"
            /\ attempt' = attempt + 1
    /\ UNCHANGED <<timeout, poll_interval, on_phase_change, clock, last_phase, responses,
                   callbacks, cb_at_query, last_dur>>
    /\ UNCHANGED notFetch

\* requests.get answers resp after d ticks, and the iteration handles it
\* (lines 180-221), up to the sleep, the return or the raise.
Request(resp, d) ==
    /\ fa_pc = "request"
    /\ LET h == HandleResponse(resp) IN
       /\ fa_pc' = h.next
       /\ callbacks' = IF on_phase_change THEN callbacks \o Notified(h.notify, attempt)
                     ELSE callbacks
       /\ last_phase' = IF h.notify = <<>> THEN last_phase ELSE h.notify[Len(h.notify)]
    /\ clock' = clock + d
    /\ last_dur' = d
    /\ responses' = Append(responses, resp)
    /\ cb_at_query' = Len(callbacks)
    /\ UNCHANGED <<timeout, poll_interval, on_phase_change, attempt>>
    /\ UNCHANGED notFetch

\* time.sleep(poll_interval), lines 187 and 223, then back to the loop head.
Sleep ==
    /\ fa_pc = "sleep"
    /\ clock' = clock + poll_interval
    /\ fa_pc' = "loop"
    /\ UNCHANGED <<timeout, poll_interval, on_phase_change, attempt, last_phase, responses,
                   callbacks, cb_at_query, last_dur>>
    /\ UNCHANGED notFetch

NextFetch ==
    \/ \E t \in 0..MaxTimeout, p \in 1..MaxPoll, cb \in BOOLEAN : FetchStart(t, p, cb)
    \/ LoopCheck
    \/ \E resp \in Responses, d \in 0..MaxQueryDur : Request(resp, d)
    \/ Sleep

SpecFetch == InitFetch /\ [][NextFetch]_vars

\* ------------------------------------------------- claims on fetch_attestation
Last(seq) == seq[Len(seq)]

IsCompleteWith(resp, atts) ==
    /\ resp.transport /\ resp.code = 200 /\ resp.messages # <<>>
    /\ resp.messages[1].status = "complete"
    /\ resp.messages[1].attestation \in atts

UsableAttestations == IrisAttestations \ {None, "", "PENDING"}

\* C5: a call whose queries were answered 404 N times and then "complete" with
\* an attestation payload has returned on query N+1; and while every answer so
\* far was 404, nothing has been raised for them.
C5_NotFoundIsRetried ==
    /\ ( /\ Len(responses) >= 1
         /\ \A i \in 1..(Len(responses) - 1) : responses[i].code = HTTP_NOT_FOUND
         /\ IsCompleteWith(Last(responses), UsableAttestations) )
       => (fa_pc = "returned" /\ attempt = Len(responses))
    /\ (\A i \in 1..Len(responses) : responses[i].code = HTTP_NOT_FOUND)
       => fa_pc \notin {"http_error", "transport_error", "returned"}

\* One 404, then complete: returned after exactly 2 polls.
C5_Witness ==
    /\ fa_pc = "returned" /\ attempt = 2 /\ Len(responses) = 2
    /\ responses[1].code = HTTP_NOT_FOUND
    /\ Len(callbacks) = 3

\* C6: once a query is answered with an HTTP error status other than 404 the
\* call has raised: no callback was made after that response, and the attempt
\* counter equals the number of queries (so no further query was issued).
C6_OtherHttpErrorRaisesAtOnce ==
    ( /\ Len(responses) >= 1
      /\ Last(responses).transport
      /\ Last(responses).code >= 400
      /\ Last(responses).code # HTTP_NOT_FOUND )
    => /\ fa_pc = "http_error"
       /\ Len(callbacks) = cb_at_query
       /\ attempt = Len(responses)

\* A 429 after two retried responses.
C6_Witness ==
    /\ fa_pc = "http_error" /\ Len(responses) = 3
    /\ Last(responses).code = 429

\* C7 as stated: TimeoutError is raised at a time in [T, T+p).
C7_TimeoutWithinOnePollInterval ==
    fa_pc = "timeout" => (clock >= timeout /\ clock < timeout + poll_interval)

\* C7 amended: TimeoutError is raised at the first loop check at or after T,
\* never before T, and less than one poll interval plus the duration of the
\* last status query after T; every query counted by attempt was answered.
C7_TimeoutWithinPollPlusQuery ==
    fa_pc = "timeout" =>
        /\ clock >= timeout
        /\ clock < timeout + poll_interval + last_dur
        /\ attempt = Len(responses)

\* A timeout raised a full poll interval or more after T, after a slow query.
C7_Witness ==
    /\ fa_pc = "timeout" /\ timeout > 0
    /\ last_dur > 0 /\ clock >= timeout + poll_interval

\* C8: the call has returned only on a response whose first message is
\* "complete" with a usable attestation; after a "complete" response without
\* one the call is waiting (sleeping, or polling again, or timed out).
C8_ReturnsOnlyWithAttestation ==
    /\ fa_pc = "returned" => IsCompleteWith(Last(responses), UsableAttestations)
    /\ ( /\ Len(responses) >= 1
         /\ IsCompleteWith(Last(responses), IrisAttestations \ UsableAttestations) )
       => fa_pc \in {"sleep", "loop", "request", "timeout"}

\* "complete" with the PENDING placeholder first, a usable attestation later.
C8_Witness ==
    /\ fa_pc = "returned" /\ Len(responses) = 2
    /\ IsCompleteWith(responses[1], {"PENDING"})

\* C9 as stated: in a call that was given a callback, a callback is made
\* before the first query, and every query that did not end the call with an
\* error is followed by a callback.
C9_CallbackOnEveryIteration ==
    on_phase_change =>
        /\ fa_pc # "idle" => Len(callbacks) >= 1
        /\ (Len(responses) >= 1 /\ fa_pc \notin {"http_error", "transport_error"})
           => Len(callbacks) > cb_at_query

\* C10 as stated: the attempt values passed to the callback during one call
\* start at 1, are all >= 1 and never decrease.
C10_AttemptIsOneBased ==
    /\ Len(callbacks) >= 1 => callbacks[1][2] = 1
    /\ \A i \in 1..Len(callbacks) : callbacks[i][2] >= 1
    /\ \A i \in 1..(Len(callbacks) - 1) : callbacks[i][2] <= callbacks[i + 1][2]

\* =================================================== bridge_usdc_cctp_parallel
\* bridge.py:116  class CCTPBridgePhase, in declaration order
CCTPBridgePhase == <<"burning", "waiting_for_indexing", "pending_confirmations",
                     "attested", "receiving", "complete">>

\* list(CCTPBridgePhase).index(phase)
PhaseIndex(phase) ==
    (CHOOSE i \in 1..Len(CCTPBridgePhase) : CCTPBridgePhase[i] = phase) - 1

\* The chain of source_web3.
SourceChainId == 42161

\* eth_defi.cctp.constants.CHAIN_ID_TO_CCTP_DOMAIN, the chains
\* _resolve_cctp_domain knows (chain id -> CCTP domain id).
CHAIN_ID_TO_CCTP_DOMAIN == (1 :> 0) @@ (8453 :> 6) @@ (42161 :> 3)

\* _resolve_cctp_domain(chain_id) is not None
IsCctpEnabled(chain_id) == chain_id \in DOMAIN CHAIN_ID_TO_CCTP_DOMAIN

\* bridge.py:732  nonce_base
NonceBase == 999999000

\* The destinations a caller may name: Ethereum, Base, and BNB chain (56), which
\* has no CCTP domain.
DestinationChoices ==
    { [chain |-> 1, amount |-> 100],
      [chain |-> 8453, amount |-> 250],
      [chain |-> 56, amount |-> 100] }

DestinationLists ==
    UNION { [1..n -> DestinationChoices] : n \in 0..MaxDest }

\* A transaction hash names the transaction: what it does, on which chain, and
\* for which burn (the index of the destination the burn was made for).
TxHash(kind, chain, ref) == [kind |-> kind, chain |-> chain, ref |-> ref]
\* The "" receive_tx_hashes starts with.
EmptyHash == TxHash("", 0, 0)

\* A (message, attestation) pair: the burn it attests and the nonce of a forged message.
NoAttestation == [burn |-> 0, nonce |-> 0]

n_dest == Len(destinations)
dest_chain_ids == [i \in 1..n_dest |-> destinations[i].chain]

RECURSIVE SumSeq(_)
SumSeq(seq) == IF seq = <<>> THEN 0 ELSE seq[1] + SumSeq(Tail(seq))

Max(a, b) == IF a >= b THEN a ELSE b

\* Mutant: every update takes the branch of a changed phase.
SamePhase_Never(phase, old_phase) == FALSE

\* bridge.py:568  phase.value == old_phase.value
SamePhase(phase, old_phase) == phase = old_phase

\* Mutant: the bar moves by the signed distance between the phases.
Advance_Signed(old_phase, phase) == PhaseIndex(phase) - PhaseIndex(old_phase)

\* bridge.py:574-576  advance = max(0, new_ord - old_ord)
Advance(old_phase, phase) == Max(0, PhaseIndex(phase) - PhaseIndex(old_phase))

\* bridge.py:562  _update_phase(idx, phase, attempt), the whole body under the lock
UpdatePhase(idx, phase, att) ==
    LET counts == IF att > 0 THEN [poll_counts EXCEPT ![idx] = att] ELSE poll_counts
        old_phase == transfer_phases[idx]
    IN /\ poll_counts' = counts
       /\ IF SamePhase(phase, old_phase)
          THEN /\ transfer_phases' = transfer_phases
               /\ progress_bar' = [progress_bar EXCEPT !.postfix = SumSeq(counts)]
          ELSE /\ transfer_phases' = [transfer_phases EXCEPT ![idx] = phase]
               /\ progress_bar' =
                     [progress_bar EXCEPT
                        !.n = @ + Advance(old_phase, phase),
                        !.desc = [transfer_phases EXCEPT ![idx] = phase],
                        !.postfix = SumSeq(counts)]

\* bridge.py:621  on_phase(iris_status, attempt): phase_map.get, then _update_phase
OnPhase(idx, iris_status, att) ==
    IF iris_status = "waiting_for_indexing" THEN UpdatePhase(idx, "waiting_for_indexing", att)
    ELSE IF iris_status = "pending_confirmations" THEN UpdatePhase(idx, "pending_confirmations", att)
    ELSE IF iris_status = "complete" THEN UpdatePhase(idx, "attested", att)
    ELSE UNCHANGED <<transfer_phases, poll_counts, progress_bar>>

trackerVars == <<transfer_phases, poll_counts, progress_bar>>
txVars == <<approve_tx, burn_tx, receive_tx, receive_sent>>
poolVars == <<task, task_at, task_attempt, fetched, collected>>
callArgs == <<destinations, simulate, test_attesters, max_workers_arg>>
argVars == <<callArgs, max_workers>>

\* The test_attesters a caller of the simulate mode may pass: None, a dict with
\* an attester for Ethereum and for Base, and a dict with one for Ethereum only.
TestAttesterChoices == { <<>>, <<{1, 8453}>>, <<{1}>> }

\* The max_workers a caller may pass: None, or 1.
MaxWorkersChoices == { <<>>, <<1>> }

\* Mutant: without max_workers the pool has a single worker.
DefaultMaxWorkers_One(n) == 1

\* bridge.py:532-533  if max_workers is None: max_workers = len(destinations)
DefaultMaxWorkers(n) == n

\* The call raises: the exception leaves bridge_usdc_cctp_parallel.
Raise(kind, idx) ==
    /\ bpc' = "raised"
    /\ error' = [kind |-> kind, idx |-> idx]

\* ------------------------------------------------------------- the call
\* The caller's arguments. test_attesters is read in simulate mode only (lines
\* 529 and 606), so the production calls are made without it.
InitBridge ==
    /\ destinations \in DestinationLists
    /\ simulate \in BOOLEAN
    /\ test_attesters \in IF simulate THEN TestAttesterChoices ELSE {<<>>}
    /\ max_workers_arg \in MaxWorkersChoices
    /\ max_workers = 0
    /\ bpc = "call"
    /\ bidx = 0
    /\ approve_tx = [i \in 1..Len(destinations) |-> "none"]
    /\ burn_tx = [i \in 1..Len(destinations) |-> "none"]
    /\ receive_tx = [i \in 1..Len(destinations) |-> "none"]
    /\ receive_sent = [i \in 1..Len(destinations) |-> EmptyHash]
    /\ burn_results = <<>>
    /\ task = [i \in 1..Len(destinations) |-> "new"]
    /\ task_at = [i \in 1..Len(destinations) |-> "none"]
    /\ task_attempt = [i \in 1..Len(destinations) |-> 0]
    /\ fetched = [i \in 1..Len(destinations) |-> NoAttestation]
    /\ indexed_results = <<>>
    /\ attestation_data = <<>>
    /\ receive_tx_hashes = <<>>
    /\ collected = <<>>
    /\ transfer_phases = <<>>
    /\ poll_counts = <<>>
    /\ progress_bar = [n |-> 0, total |-> 0, desc |-> <<>>, postfix |-> 0]
    /\ results = <<>>
    /\ error = [kind |-> "none", idx |-> 0]

Init == FetchIdle /\ InitBridge /\ LockIdle /\ SingleIdle /\ MonitorIdle /\ ExtraIdle

\* bridge.py:526-560: the empty list returns at once; simulate mode without
\* test_attesters fails its assert (529-530); otherwise max_workers gets its
\* default (532-533) and the tracker is set up.
BridgeEnter ==
    /\ bpc = "call"
    /\ IF destinations = <<>>
       THEN /\ bpc' = "returned"
            /\ UNCHANGED <<bidx, max_workers, trackerVars, error>>
       ELSE IF simulate /\ IsNone(test_attesters)
       THEN /\ Raise("assert_attesters", 0)
            /\ UNCHANGED <<bidx, max_workers, trackerVars>>
       ELSE /\ bpc' = "burn_begin"
            /\ bidx' = 1
            /\ max_workers' = IF IsNone(max_workers_arg)
                              THEN DefaultMaxWorkers(n_dest)
                              ELSE Value(max_workers_arg)
            /\ UNCHANGED error
            /\ transfer_phases' = [i \in 1..n_dest |-> "burning"]
            /\ poll_counts' = [i \in 1..n_dest |-> 0]
            /\ progress_bar' = [n |-> 0, total |-> n_dest * Len(CCTPBridgePhase),
                                desc |-> <<>>, postfix |-> 0]
    /\ UNCHANGED <<callArgs, txVars, burn_results, poolVars, indexed_results,
                   attestation_data, receive_tx_hashes, results, notBridge>>

\* bridge.py:586-587 and burn_usdc_cctp 256-272: the loop of burns takes the next
\* destination; the domain asserts pass and the approve transaction is sent, or
\* an assert fails.
BurnBegin ==
    /\ bpc = "burn_begin"
    /\ UpdatePhase(bidx, "burning", 0)
    /\ IF IsCctpEnabled(SourceChainId) /\ IsCctpEnabled(dest_chain_ids[bidx])
       THEN /\ approve_tx' = [approve_tx EXCEPT ![bidx] = "sent"]
            /\ bpc' = "approve_wait"
            /\ UNCHANGED error
       ELSE /\ Raise("assert_domain", bidx)
            /\ UNCHANGED approve_tx
    /\ UNCHANGED <<argVars, bidx, burn_tx, receive_tx, receive_sent, burn_results,
                   poolVars, indexed_results, attestation_data, receive_tx_hashes,
                   results, notBridge>>

\* eth_defi.trace.assert_transaction_success_with_explanation(web3, tx_hash):
\* waits for the receipt ("blocked" until the transaction is mined), then
\* returns for a successful transaction and raises for a failed one.
AssertTransactionSuccess(status) ==
    IF status = "ok" THEN "pass"
    ELSE IF status = "failed" THEN "raise"
    ELSE "blocked"

\* The chain mines a transaction that is in flight: it succeeds or reverts.
ChainMines(kind, i, ok) ==
    LET status == IF ok THEN "ok" ELSE "failed" IN
    /\ i \in 1..n_dest
    /\ \/ /\ kind = "approve" /\ approve_tx[i] = "sent"
          /\ approve_tx' = [approve_tx EXCEPT ![i] = status]
          /\ UNCHANGED <<burn_tx, receive_tx>>
       \/ /\ kind = "burn" /\ burn_tx[i] = "sent"
          /\ burn_tx' = [burn_tx EXCEPT ![i] = status]
          /\ UNCHANGED <<approve_tx, receive_tx>>
       \/ /\ kind = "receive" /\ receive_tx[i] = "sent"
          /\ receive_tx' = [receive_tx EXCEPT ![i] = status]
          /\ UNCHANGED <<approve_tx, burn_tx>>
    /\ UNCHANGED <<argVars, bpc, bidx, receive_sent, burn_results, poolVars,
                   indexed_results, attestation_data, receive_tx_hashes,
                   trackerVars, results, error, notBridge>>

\* Mutant: burn_usdc_cctp goes on without asserting the approve.
AfterApproveSent_NoAssert(status) == "pass"

\* bridge.py:273  assert_transaction_success_with_explanation(source_web3, tx_hash)
AfterApproveSent(status) == AssertTransactionSuccess(status)

\* burn_usdc_cctp 273-284: once the approve is confirmed the burn is sent; a
\* failed approve raises.
BurnSend ==
    /\ bpc = "approve_wait"
    /\ AfterApproveSent(approve_tx[bidx]) # "blocked"
    /\ IF AfterApproveSent(approve_tx[bidx]) = "pass"
       THEN /\ burn_tx' = [burn_tx EXCEPT ![bidx] = "sent"]
            /\ bpc' = "burn_wait"
            /\ UNCHANGED error
       ELSE /\ Raise("approve", bidx)
            /\ UNCHANGED burn_tx
    /\ UNCHANGED <<argVars, bidx, approve_tx, receive_tx, receive_sent, burn_results,
                   poolVars, indexed_results, attestation_data, receive_tx_hashes,
                   trackerVars, results, notBridge>>

\* bridge.py:288-294  CCTPBurnResult of the burn made for destination idx
BurnResult(idx) ==
    [burn_tx_hash |-> TxHash("burn", SourceChainId, idx),
     amount |-> destinations[idx].amount,
     source_chain_id |-> SourceChainId,
     dest_chain_id |-> dest_chain_ids[idx]]

\* Mutant: burn_usdc_cctp returns without asserting the burn.
AfterBurnSent_NoAssert(status) == "pass"

\* bridge.py:285  assert_transaction_success_with_explanation(source_web3, burn_tx_hash)
AfterBurnSent(status) == AssertTransactionSuccess(status)

\* burn_usdc_cctp 285-294 and bridge.py:598-603: once the burn is confirmed its
\* result is appended; after the last one phase 2 starts. A failed burn raises.
BurnDone ==
    /\ bpc = "burn_wait"
    /\ AfterBurnSent(burn_tx[bidx]) # "blocked"
    /\ IF AfterBurnSent(burn_tx[bidx]) = "pass"
       THEN /\ burn_results' = Append(burn_results, BurnResult(bidx))
            /\ IF bidx < n_dest
               THEN /\ bidx' = bidx + 1
                    /\ bpc' = "burn_begin"
               ELSE /\ bidx' = 1
                    /\ bpc' = IF simulate THEN "sim_attest" ELSE "attest_report"
            /\ UNCHANGED error
       ELSE /\ Raise("burn", bidx)
            /\ UNCHANGED <<burn_results, bidx>>
    /\ UNCHANGED <<argVars, txVars, poolVars, indexed_results, attestation_data,
                   receive_tx_hashes, trackerVars, results, notBridge>>

\* bridge.py:748-764  _get_attestation(simulate=True): the forged message
ForgedAttestation(burn_result) ==
    [burn |-> burn_result.burn_tx_hash.ref,
     nonce |-> NonceBase + CHAIN_ID_TO_CCTP_DOMAIN[burn_result.dest_chain_id]]

\* bridge.py:606  test_attesters[dest_chain_ids[idx]] finds an attester
HasAttester(idx) == dest_chain_ids[idx] \in Value(test_attesters)

\* bridge.py:605-615, 654: simulate mode forges the attestations one after the
\* other. The attester of the destination's chain is looked up first (606): a
\* chain the dict has no attester for raises KeyError, before the phase is
\* reported and before anything is forged.
SimAttest ==
    /\ bpc = "sim_attest"
    /\ IF HasAttester(bidx)
       THEN /\ UpdatePhase(bidx, "attested", 0)
            /\ attestation_data' =
                  Append(attestation_data, ForgedAttestation(burn_results[bidx]))
            /\ IF bidx < n_dest
               THEN /\ bidx' = bidx + 1
                    /\ bpc' = "sim_attest"
                    /\ UNCHANGED receive_tx_hashes
               ELSE /\ bidx' = 1
                    /\ bpc' = "sim_receive"
                    /\ receive_tx_hashes' = [i \in 1..n_dest |-> EmptyHash]
            /\ UNCHANGED error
       ELSE /\ Raise("attestation", bidx)
            /\ UNCHANGED <<bidx, attestation_data, receive_tx_hashes, trackerVars>>
    /\ UNCHANGED <<argVars, txVars, burn_results, poolVars, indexed_results,
                   results, notBridge>>

\* Mutant: the results are built in the order the receives were collected.
BuildResults_CompletionOrder(burns, hashes, order) ==
    [k \in 1..Len(burns) |->
        [burn_tx_hash |-> burns[k].burn_tx_hash,
         receive_tx_hash |-> hashes[order[k]],
         amount |-> burns[k].amount,
         source_chain_id |-> burns[k].source_chain_id,
         dest_chain_id |-> burns[k].dest_chain_id]]

\* bridge.py:709-720  the results, built from burn_results and receive_tx_hashes
\* by index (the order in which the receives were collected plays no part)
BuildResults(burns, hashes, order) ==
    [i \in 1..Len(burns) |->
        [burn_tx_hash |-> burns[i].burn_tx_hash,
         receive_tx_hash |-> hashes[i],
         amount |-> burns[i].amount,
         source_chain_id |-> burns[i].source_chain_id,
         dest_chain_id |-> burns[i].dest_chain_id]]

\* bridge.py:671-679 and receive_usdc_cctp 333-336: simulate mode sends the
\* receive of the next destination.
SimReceiveSend ==
    /\ bpc = "sim_receive"
    /\ UpdatePhase(bidx, "receiving", 0)
    /\ receive_tx' = [receive_tx EXCEPT ![bidx] = "sent"]
    /\ receive_sent' = [receive_sent EXCEPT ![bidx] =
                           TxHash("receive", dest_chain_ids[bidx], attestation_data[bidx].burn)]
    /\ bpc' = "sim_receive_wait"
    /\ UNCHANGED <<argVars, bidx, approve_tx, burn_tx, burn_results, poolVars,
                   indexed_results, attestation_data, receive_tx_hashes,
                   results, error, notBridge>>

\* receive_usdc_cctp 337-340 and bridge.py:673-680, 707-722: once the receive is
\* confirmed the next one is sent; after the last one the results are built and
\* returned. A failed receive raises.
SimReceiveDone ==
    /\ bpc = "sim_receive_wait"
    /\ AssertTransactionSuccess(receive_tx[bidx]) # "blocked"
    /\ IF AssertTransactionSuccess(receive_tx[bidx]) = "pass"
       THEN /\ receive_tx_hashes' = [receive_tx_hashes EXCEPT ![bidx] = receive_sent[bidx]]
            /\ UpdatePhase(bidx, "complete", 0)
            /\ IF bidx < n_dest
               THEN /\ bidx' = bidx + 1
                    /\ bpc' = "sim_receive"
                    /\ UNCHANGED results
               ELSE /\ bpc' = "returned"
                    /\ results' = BuildResults(burn_results, receive_tx_hashes',
                                               [i \in 1..n_dest |-> i])
                    /\ UNCHANGED bidx
            /\ UNCHANGED error
       ELSE /\ Raise("receive", bidx)
            /\ UNCHANGED <<receive_tx_hashes, trackerVars, results, bidx>>
    /\ UNCHANGED <<argVars, txVars, burn_results, poolVars,
                   indexed_results, attestation_data, notBridge>>

\* ------------------------------------------------------ the worker pools
\* task[i] is the state of the Future of destination i: queued while the call
\* waits in the executor's queue, running from the moment a worker thread has
\* taken it off the queue, done or failed once the call has returned or raised.
\* task_at[i] is the line the worker stands at inside the call; the worker
\* threads and the calling thread take their steps in any order.
AttestPool == {"attest_report", "attest_submit", "attest_collect", "attest_shutdown"}
ReceivePool == {"receive_submit", "receive_collect", "receive_shutdown"}

Running == {i \in 1..n_dest : task[i] = "running"}
Finished == {i \in 1..n_dest : task[i] \in {"done", "failed"}}

\* concurrent.futures.ThreadPoolExecutor: a worker thread takes a submitted
\* call off the queue while fewer than max_workers calls are held by workers;
\* the queue is first in, first out.
WorkerFree(i) ==
    /\ task[i] = "queued"
    /\ Cardinality(Running) < max_workers
    /\ \A j \in 1..(i - 1) : task[j] # "queued"

\* bridge.py:642: the calling thread reports the burn as waiting_for_indexing.
AttestReport ==
    /\ bpc = "attest_report"
    /\ UpdatePhase(bidx, "waiting_for_indexing", 0)
    /\ bpc' = "attest_submit"
    /\ UNCHANGED <<argVars, bidx, txVars, burn_results, poolVars,
                   indexed_results, attestation_data, receive_tx_hashes,
                   results, error, notBridge>>

\* bridge.py:643-644: the burn's attestation wait is submitted to the pool.
AttestSubmit ==
    /\ bpc = "attest_submit"
    /\ task' = [task EXCEPT ![bidx] = "queued"]
    /\ IF bidx < n_dest
       THEN bidx' = bidx + 1 /\ bpc' = "attest_report"
       ELSE bidx' = bidx /\ bpc' = "attest_collect"
    /\ UNCHANGED <<argVars, txVars, burn_results, task_at, task_attempt, fetched,
                   collected, indexed_results, attestation_data, receive_tx_hashes,
                   trackerVars, results, error, notBridge>>

\* A worker of the attestation pool takes the call off the queue and marks its
\* Future running; the call stands before its first line (bridge.py:619).
AttestTaskDequeue(i) ==
    /\ bpc \in AttestPool
    /\ WorkerFree(i)
    /\ task' = [task EXCEPT ![i] = "running"]
    /\ task_at' = [task_at EXCEPT ![i] = "start"]
    /\ UNCHANGED <<argVars, bpc, bidx, txVars, burn_results, task_attempt, fetched,
                   collected, indexed_results, attestation_data, receive_tx_hashes,
                   trackerVars, results, error, notBridge>>

\* _attest_with_progress 619-637 into fetch_attestation up to its first
\* _notify (attestation.py:148-158), which reports under the tracker's lock.
AttestTaskStart(i) ==
    /\ bpc \in AttestPool
    /\ task[i] = "running" /\ task_at[i] = "start"
    /\ task_at' = [task_at EXCEPT ![i] = "loop"]
    /\ task_attempt' = [task_attempt EXCEPT ![i] = 0]
    /\ OnPhase(i, "waiting_for_indexing", 0)
    /\ UNCHANGED <<argVars, bpc, bidx, txVars, burn_results, task, fetched, collected,
                   indexed_results, attestation_data, receive_tx_hashes,
                   results, error, notBridge>>

\* The head of the task's fetch_attestation loop finds the timeout not elapsed
\* and counts the attempt (attestation.py:161-165); the worker then waits in
\* requests.get (180).
AttestTaskLoop(i) ==
    /\ bpc \in AttestPool
    /\ task[i] = "running" /\ task_at[i] = "loop"
    /\ SumSeq(task_attempt) < MaxPolls
    /\ task_attempt' = [task_attempt EXCEPT ![i] = @ + 1]
    /\ task_at' = [task_at EXCEPT ![i] = "request"]
    /\ UNCHANGED <<argVars, bpc, bidx, txVars, burn_results, task, fetched, collected,
                   indexed_results, attestation_data, receive_tx_hashes,
                   trackerVars, results, error, notBridge>>

\* The head of the task's fetch_attestation loop finds the timeout elapsed and
\* raises TimeoutError (attestation.py:162-163), which ends the call.
AttestTaskTimeout(i) ==
    /\ bpc \in AttestPool
    /\ task[i] = "running" /\ task_at[i] = "loop"
    /\ task' = [task EXCEPT ![i] = "failed"]
    /\ task_at' = [task_at EXCEPT ![i] = "ended"]
    /\ UNCHANGED <<argVars, bpc, bidx, txVars, burn_results, task_attempt, fetched,
                   collected, indexed_results, attestation_data, receive_tx_hashes,
                   trackerVars, results, error, notBridge>>

\* requests.get answers and the iteration handles the answer (attestation.py:
\* 180-221): the callback reports under the tracker's lock; then the worker
\* stands before the return (209), or sleeps and comes back to the loop head
\* (187, 223: nothing of the call changes while it sleeps), or the exception
\* of the query ends the call.
AttestTaskAnswer(i, resp) ==
    /\ bpc \in AttestPool
    /\ task[i] = "running" /\ task_at[i] = "request"
    /\ LET h == HandleResponse(resp) IN
       /\ IF h.notify = <<>>
          THEN UNCHANGED trackerVars
          ELSE OnPhase(i, h.notify[1], task_attempt[i])
       /\ IF h.next = "sleep"
          THEN /\ task_at' = [task_at EXCEPT ![i] = "loop"]
               /\ UNCHANGED task
          ELSE IF h.next = "returned"
          THEN /\ task_at' = [task_at EXCEPT ![i] = "return"]
               /\ UNCHANGED task
          ELSE /\ task' = [task EXCEPT ![i] = "failed"]
               /\ task_at' = [task_at EXCEPT ![i] = "ended"]
    /\ UNCHANGED <<argVars, bpc, bidx, txVars, burn_results, task_attempt, fetched,
                   collected, indexed_results, attestation_data, receive_tx_hashes,
                   results, error, notBridge>>

\* attestation.py:210-214, _get_attestation 779-780 and bridge.py:631: the
\* pair is returned and the Future is finished with it.
AttestTaskReturn(i) ==
    /\ bpc \in AttestPool
    /\ task[i] = "running" /\ task_at[i] = "return"
    /\ task' = [task EXCEPT ![i] = "done"]
    /\ task_at' = [task_at EXCEPT ![i] = "ended"]
    /\ fetched' = [fetched EXCEPT ![i] =
                      [burn |-> burn_results[i].burn_tx_hash.ref, nonce |-> 0]]
    /\ UNCHANGED <<argVars, bpc, bidx, txVars, burn_results, task_attempt,
                   collected, indexed_results, attestation_data, receive_tx_hashes,
                   trackerVars, results, error, notBridge>>

\* Mutant: the exception of a failed call is swallowed.
FutureResult_Swallowed(state) == "value"

\* bridge.py:649 and 705  future.result(): the value the call returned, or its
\* exception raised again
FutureResult(state) == IF state = "done" THEN "value" ELSE "raise"

\* bridge.py:651  attestation_data = [indexed_results[i] for i in range(n_dest)]
AttestationData(indexed, order) ==
    [i \in 1..Len(order) |-> indexed[i]]

\* bridge.py:647-654: as_completed yields a finished future and result() stores
\* its value or raises its exception; after the last one phase 3 begins.
AttestCollect(i) ==
    /\ bpc = "attest_collect"
    /\ i \in Finished \ {collected[k] : k \in 1..Len(collected)}
    /\ IF FutureResult(task[i]) = "value"
       THEN /\ indexed_results' = (i :> fetched[i]) @@ indexed_results
            /\ collected' = Append(collected, i)
            /\ IF Len(collected') = n_dest
               THEN /\ attestation_data' = AttestationData(indexed_results', collected')
                    /\ receive_tx_hashes' = [k \in 1..n_dest |-> EmptyHash]
                    /\ task' = [k \in 1..n_dest |-> "new"]
                    /\ task_at' = [k \in 1..n_dest |-> "none"]
                    /\ bidx' = 1
                    /\ bpc' = "receive_submit"
               ELSE UNCHANGED <<attestation_data, receive_tx_hashes, task, task_at,
                                bidx, bpc>>
            /\ UNCHANGED error
       ELSE /\ bpc' = "attest_shutdown"
            /\ error' = [kind |-> "attestation", idx |-> i]
            /\ UNCHANGED <<indexed_results, collected, attestation_data,
                           receive_tx_hashes, task, task_at, bidx>>
    /\ UNCHANGED <<argVars, txVars, burn_results, task_attempt, fetched,
                   trackerVars, results, notBridge>>

\* bridge.py:699-701: the receive of the next destination is submitted to the pool.
ReceiveSubmit ==
    /\ bpc = "receive_submit"
    /\ task' = [task EXCEPT ![bidx] = "queued"]
    /\ IF bidx < n_dest
       THEN bidx' = bidx + 1 /\ bpc' = "receive_submit"
       ELSE bidx' = bidx /\ bpc' = "receive_collect" /\ collected' = <<>>
    /\ IF bidx < n_dest THEN UNCHANGED collected ELSE TRUE
    /\ UNCHANGED <<argVars, txVars, burn_results, task_at, task_attempt, fetched,
                   indexed_results, attestation_data, receive_tx_hashes,
                   trackerVars, results, error, notBridge>>

\* A worker of the receive pool takes the call off the queue and marks its
\* Future running; the call stands before its first line (bridge.py:684).
ReceiveTaskDequeue(i) ==
    /\ bpc \in ReceivePool
    /\ WorkerFree(i)
    /\ task' = [task EXCEPT ![i] = "running"]
    /\ task_at' = [task_at EXCEPT ![i] = "start"]
    /\ UNCHANGED <<argVars, bpc, bidx, txVars, burn_results, task_attempt, fetched,
                   collected, indexed_results, attestation_data, receive_tx_hashes,
                   trackerVars, results, error, notBridge>>

\* _receive_with_progress 684-685: the worker reports the transfer as
\* receiving, under the tracker's lock.
ReceiveTaskStart(i) ==
    /\ bpc \in ReceivePool
    /\ task[i] = "running" /\ task_at[i] = "start"
    /\ UpdatePhase(i, "receiving", 0)
    /\ task_at' = [task_at EXCEPT ![i] = "send"]
    /\ UNCHANGED <<argVars, bpc, bidx, txVars, burn_results, task, task_attempt,
                   fetched, collected, indexed_results, attestation_data,
                   receive_tx_hashes, results, error, notBridge>>

\* _receive_with_progress 686-693 into receive_usdc_cctp 333-336: the receive
\* transaction is prepared and sent.
ReceiveTaskSend(i) ==
    /\ bpc \in ReceivePool
    /\ task[i] = "running" /\ task_at[i] = "send"
    /\ receive_tx' = [receive_tx EXCEPT ![i] = "sent"]
    /\ receive_sent' = [receive_sent EXCEPT ![i] =
                           TxHash("receive", dest_chain_ids[i], attestation_data[i].burn)]
    /\ task_at' = [task_at EXCEPT ![i] = "wait"]
    /\ UNCHANGED <<argVars, bpc, bidx, approve_tx, burn_tx, burn_results, task,
                   task_attempt, fetched, collected, indexed_results, attestation_data,
                   receive_tx_hashes, trackerVars, results, error, notBridge>>

\* receive_usdc_cctp 337-340 and _receive_with_progress 694: the receive is
\* confirmed and the worker reports the transfer complete, under the tracker's
\* lock, and stands before its return (695); or the receive failed and the
\* exception ends the call.
ReceiveTaskDone(i) ==
    /\ bpc \in ReceivePool
    /\ task[i] = "running" /\ task_at[i] = "wait"
    /\ AssertTransactionSuccess(receive_tx[i]) # "blocked"
    /\ IF AssertTransactionSuccess(receive_tx[i]) = "pass"
       THEN /\ UpdatePhase(i, "complete", 0)
            /\ task_at' = [task_at EXCEPT ![i] = "return"]
            /\ UNCHANGED task
       ELSE /\ task' = [task EXCEPT ![i] = "failed"]
            /\ task_at' = [task_at EXCEPT ![i] = "ended"]
            /\ UNCHANGED trackerVars
    /\ UNCHANGED <<argVars, bpc, bidx, txVars, burn_results, task_attempt, fetched,
                   collected, indexed_results, attestation_data, receive_tx_hashes,
                   results, error, notBridge>>

\* _receive_with_progress 695: the hash is returned and the Future is
\* finished with it.
ReceiveTaskReturn(i) ==
    /\ bpc \in ReceivePool
    /\ task[i] = "running" /\ task_at[i] = "return"
    /\ task' = [task EXCEPT ![i] = "done"]
    /\ task_at' = [task_at EXCEPT ![i] = "ended"]
    /\ UNCHANGED <<argVars, bpc, bidx, txVars, burn_results, task_attempt, fetched,
                   collected, indexed_results, attestation_data, receive_tx_hashes,
                   trackerVars, results, error, notBridge>>

\* bridge.py:703-722: as_completed yields a finished receive and result() stores
\* its hash or raises its exception; after the last one the results are built.
ReceiveCollect(i) ==
    /\ bpc = "receive_collect"
    /\ i \in Finished \ {collected[k] : k \in 1..Len(collected)}
    /\ IF FutureResult(task[i]) = "value"
       THEN /\ receive_tx_hashes' = [receive_tx_hashes EXCEPT ![i] = receive_sent[i]]
            /\ collected' = Append(collected, i)
            /\ IF Len(collected') = n_dest
               THEN /\ results' = BuildResults(burn_results, receive_tx_hashes', collected')
                    /\ bpc' = "returned"
               ELSE UNCHANGED <<results, bpc>>
            /\ UNCHANGED error
       ELSE /\ bpc' = "receive_shutdown"
            /\ error' = [kind |-> "receive", idx |-> i]
            /\ UNCHANGED <<receive_tx_hashes, collected, results>>
    /\ UNCHANGED <<argVars, bidx, txVars, burn_results, task, task_at, task_attempt, fetched,
                   indexed_results, attestation_data, trackerVars, notBridge>>

\* Mutant: leaving the with block does not wait for the calls still running.
ShutdownWaits_NoWait(ended, n) == TRUE

\* monitor.py:305, bridge.py:639 and 697  the with block's exit is
\* executor.shutdown(wait=True): it returns when every submitted call has ended
ShutdownWaits(ended, n) == ended = 1..n

\* bridge.py:639 and 697: the exception leaves the with block, whose __exit__
\* is executor.shutdown(wait=True): it returns when every submitted call has
\* ended, and then the exception leaves bridge_usdc_cctp_parallel.
PoolShutdown ==
    /\ bpc \in {"attest_shutdown", "receive_shutdown"}
    /\ ShutdownWaits(Finished, n_dest)
    /\ bpc' = "raised"
    /\ UNCHANGED <<argVars, bidx, txVars, burn_results, poolVars, indexed_results,
                   attestation_data, receive_tx_hashes, trackerVars, results, error,
                   notBridge>>

Next ==
    \/ BridgeEnter
    \/ BurnBegin
    \/ BurnSend
    \/ BurnDone
    \/ \E kind \in {"approve", "burn", "receive"}, i \in 1..n_dest, ok \in BOOLEAN :
          ChainMines(kind, i, ok)
    \/ SimAttest
    \/ SimReceiveSend
    \/ SimReceiveDone
    \/ AttestReport
    \/ AttestSubmit
    \/ \E i \in 1..n_dest : AttestTaskDequeue(i)
    \/ \E i \in 1..n_dest : AttestTaskStart(i)
    \/ \E i \in 1..n_dest : AttestTaskLoop(i)
    \/ \E i \in 1..n_dest : AttestTaskTimeout(i)
    \/ \E i \in 1..n_dest, resp \in Responses : AttestTaskAnswer(i, resp)
    \/ \E i \in 1..n_dest : AttestTaskReturn(i)
    \/ \E i \in 1..n_dest : AttestCollect(i)
    \/ ReceiveSubmit
    \/ \E i \in 1..n_dest : ReceiveTaskDequeue(i)
    \/ \E i \in 1..n_dest : ReceiveTaskStart(i)
    \/ \E i \in 1..n_dest : ReceiveTaskSend(i)
    \/ \E i \in 1..n_dest : ReceiveTaskDone(i)
    \/ \E i \in 1..n_dest : ReceiveTaskReturn(i)
    \/ \E i \in 1..n_dest : ReceiveCollect(i)
    \/ PoolShutdown

Spec == Init /\ [][Next]_vars

\* ------------------------------------------- claims on bridge_usdc_cctp_parallel
SourceInFlight ==
    {<<"approve", i>> : i \in {j \in 1..n_dest : approve_tx[j] = "sent"}}
    \cup {<<"burn", i>> : i \in {j \in 1..n_dest : burn_tx[j] = "sent"}}

\* C1: when the call has returned, the result list has one entry per
\* destination and entry i carries the burn made for destination i, the
\* receive of that burn's message on destination i's chain (confirmed), and
\* destination i's amount and chain id.
C1_ResultsInInputOrder ==
    bpc = "returned" =>
        /\ Len(results) = Len(destinations)
        /\ \A i \in 1..Len(destinations) :
              /\ results[i].burn_tx_hash = TxHash("burn", SourceChainId, i)
              /\ results[i].receive_tx_hash = TxHash("receive", destinations[i].chain, i)
              /\ results[i].amount = destinations[i].amount
              /\ results[i].dest_chain_id = destinations[i].chain
              /\ results[i].source_chain_id = SourceChainId
              /\ burn_tx[i] = "ok" /\ receive_tx[i] = "ok"

\* Production mode, two different destinations, the second one's receive
\* collected first.
C1_Witness ==
    /\ bpc = "returned" /\ ~simulate
    /\ Len(destinations) = 2 /\ destinations[1] # destinations[2]
    /\ collected = <<2, 1>>

\* C2: at most one source-chain transaction of the call is in flight at any
\* time; the burn of a destination is sent only after its approve is
\* confirmed, and the approve of destination i+1 only after the burn of
\* destination i is confirmed.
C2_BurnsAreSequential ==
    /\ Cardinality(SourceInFlight) <= 1
    /\ \A i \in 1..n_dest : burn_tx[i] # "none" => approve_tx[i] = "ok"
    /\ \A i \in 2..n_dest : approve_tx[i] # "none" => burn_tx[i - 1] = "ok"

\* The approve of the second destination is in flight.
C2_Witness ==
    /\ n_dest = 2 /\ approve_tx[2] = "sent" /\ burn_tx[1] = "ok"

\* C3 as stated: with a destination that maps to no CCTP domain, no approve and
\* no burn is ever submitted for any destination.
C3_UnknownDomainFailsBeforeAnyTx ==
    (\E i \in 1..Len(destinations) :
        destinations[i].chain \notin DOMAIN CHAIN_ID_TO_CCTP_DOMAIN)
    => \A j \in 1..Len(destinations) : approve_tx[j] = "none" /\ burn_tx[j] = "none"

StepsConfirmed ==
    {<<"approve", i>> : i \in {j \in 1..n_dest : approve_tx[j] = "ok"}}
    \cup {<<"burn", i>> : i \in {j \in 1..n_dest : burn_tx[j] = "ok"}}
    \cup {<<"receive", i>> : i \in {j \in 1..n_dest : receive_tx[j] = "ok"}}

\* In simulate mode the attestation of destination i has failed when the
\* forging loop ended at i, whose chain test_attesters has no attester for.
SimAttestationFailed ==
    {i \in 1..n_dest :
        /\ simulate /\ bpc = "raised"
        /\ Len(burn_results) = n_dest
        /\ Len(attestation_data) = i - 1
        /\ ~HasAttester(i)}

\* A failed call of the attestation pool is one whose receive was never sent
\* (a failed call of the receive pool has a failed receive transaction).
StepsFailed ==
    {<<"approve", i>> : i \in {j \in 1..n_dest : approve_tx[j] = "failed"}}
    \cup {<<"burn", i>> : i \in {j \in 1..n_dest : burn_tx[j] = "failed"}}
    \cup {<<"receive", i>> : i \in {j \in 1..n_dest : receive_tx[j] = "failed"}}
    \cup {<<"attestation", i>> : i \in {j \in 1..n_dest :
                                   task[j] = "failed" /\ receive_tx[j] = "none"}}
    \cup {<<"attestation", i>> : i \in SimAttestationFailed}

TxInFlight ==
    {i \in 1..n_dest : "sent" \in {approve_tx[i], burn_tx[i], receive_tx[i]}}

\* C4: every step of the call keeps these: the call returns only when no burn,
\* attestation or receive has failed; when it raises, the exception is that of
\* a failed step of one destination (or a failed assert on the arguments), no
\* result list exists and nothing is in flight; a confirmed on-chain step
\* stays confirmed; and after the raise nothing more is done.
C4_FailurePropagates ==
    [][ /\ bpc' = "returned" => StepsFailed' = {}
        /\ bpc' = "raised" =>
              /\ results' = <<>>
              /\ error'.kind # "none"
              /\ error'.kind \notin {"assert_domain", "assert_attesters"}
                    => <<error'.kind, error'.idx>> \in StepsFailed'
              /\ TxInFlight' = {}
        /\ StepsConfirmed \subseteq StepsConfirmed'
        /\ StepsFailed # {} => bpc' # "returned"
        /\ bpc = "raised" => UNCHANGED vars
      ]_vars

\* A simulated call to Ethereum and Base with an attester for Ethereum only:
\* both burns are confirmed, the attestation of the first was forged, and the
\* call raised the failed attestation of the second.
C4_Witness ==
    /\ bpc = "raised" /\ simulate
    /\ error = [kind |-> "attestation", idx |-> 2]
    /\ Len(attestation_data) = 1
    /\ \A i \in 1..n_dest : approve_tx[i] = "ok" /\ burn_tx[i] = "ok"
    /\ results = <<>>

\* ------------------------------------- claims on the pools of the parallel bridge
\* C14: attestation waits exist in production mode only and only once every
\* burn is confirmed, one per destination (the wait of destination i fetches
\* the attestation of burn i, and once the submit loop has ended every
\* destination has its wait); at most max_workers of them are running at any
\* time; and when the caller passes no max_workers the pool is as wide as the
\* destination list, so that whenever a wait is still queued a worker is free
\* to take it: no wait has to wait for another one to end.
C14_AttestationWaitsBounded ==
    /\ simulate => \A i \in 1..n_dest : task[i] = "new"
    /\ bpc \in AttestPool =>
          /\ ~simulate
          /\ Cardinality(Running) <= max_workers
          /\ \A i \in 1..n_dest : burn_tx[i] = "ok"
          /\ \A i \in 1..n_dest : task[i] = "done" => fetched[i].burn = i
          /\ bpc \in {"attest_collect", "attest_shutdown"}
                => \A i \in 1..n_dest : task[i] # "new"
          /\ IsNone(max_workers_arg) =>
                /\ max_workers = n_dest
                /\ (\E i \in 1..n_dest : task[i] = "queued")
                      => Cardinality(Running) < max_workers

\* Two destinations and no max_workers given: after the last burn the waits
\* of both destinations are in flight together, each one with a status query
\* under way.
C14_Witness ==
    /\ bpc \in AttestPool /\ n_dest = 2 /\ IsNone(max_workers_arg)
    /\ task = <<"running", "running">>
    /\ task_at = <<"request", "request">>
    /\ \A i \in 1..n_dest : burn_tx[i] = "ok"

\* C28: a receive is submitted only when the attestation of every destination
\* has been obtained (forged in simulation, fetched in production); and when
\* the attestation of a destination has failed (its wait in production, the
\* lookup of its attester in simulation) no receive was ever submitted,
\* although every burn is confirmed.
C28_NoReceiveBeforeAllAttestations ==
    /\ (\E i \in 1..n_dest : receive_tx[i] # "none")
       => /\ Len(attestation_data) = n_dest
          /\ \A j \in 1..n_dest : attestation_data[j].burn = j
          /\ ~simulate => \A j \in 1..n_dest : fetched[j].burn = j
    /\ (error.kind = "attestation" \/ SimAttestationFailed # {}
        \/ \E i \in 1..n_dest : bpc \in AttestPool /\ task[i] = "failed")
       => /\ \A i \in 1..n_dest : receive_tx[i] = "none"
          /\ \A i \in 1..n_dest : burn_tx[i] = "ok"

\* Of two attestation waits one returned its attestation and the other
\* failed: the call raised with both burns confirmed and no receive sent.
C28_Witness ==
    /\ bpc = "raised" /\ error.kind = "attestation" /\ n_dest = 2
    /\ \E j \in 1..n_dest : task[j] = "done" /\ fetched[j].burn = j
    /\ \A i \in 1..n_dest : burn_tx[i] = "ok" /\ receive_tx[i] = "none"

\* bridge.py:658-664  dest_wallets, with a hot_wallet given: one HotWallet per
\* destination chain id, made for the first destination on that chain (the
\* object is named here by the index of that destination).
DestWallets ==
    [cid \in {dest_chain_ids[i] : i \in 1..n_dest} |->
        CHOOSE i \in 1..n_dest :
            /\ dest_chain_ids[i] = cid
            /\ \A j \in 1..(i - 1) : dest_chain_ids[j] # cid]

\* bridge.py:691  hot_wallet=dest_wallets[dest_chain_ids[idx]]
ReceiveWallet(idx) == DestWallets[dest_chain_ids[idx]]

\* C15 as stated: no two receive tasks that are running at the same time were
\* given the same nonce-tracking object.
C15_NoSharedNonceObject ==
    bpc \in ReceivePool =>
        \A i, j \in Running : i # j => ReceiveWallet(i) # ReceiveWallet(j)

\* C16 as stated: in simulate mode no two destinations of the call are given
\* the same forged-message nonce.
C16_ForgedNoncesDistinct ==
    simulate =>
        \A i, j \in 1..Len(attestation_data) :
            i # j => attestation_data[i].nonce # attestation_data[j].nonce

\* ============================================================ bridge_usdc_cctp
\* The single-destination flow: burn_usdc_cctp, _get_attestation (forged, or
\* fetch_attestation with its poll loop as modelled above), receive_usdc_cctp.
\* The destination and amount a caller of bridge_usdc_cctp may pass; the
\* amount is an int the caller chooses, zero included.
SingleChoices == DestinationChoices \cup {[chain |-> 8453, amount |-> 0]}

\* eth_defi.cctp.transfer.prepare_approve_for_burn(web3, amount): the call
\* approve(TokenMessengerV2, amount) on the chain's USDC. The burn phase of
\* spec 4.3 ("approve token spend, then call the burn primitive") puts no
\* condition on the amount: a call is built for every amount.
PrepareApproveForBurn(amount) == [fn |-> "approve", amount |-> amount]

\* eth_defi.cctp.transfer.prepare_deposit_for_burn(web3, amount,
\* destination_chain_id, mint_recipient): the call depositForBurn for the
\* amount and the destination, likewise built for every amount.
PrepareDepositForBurn(amount, destination_chain_id) ==
    [fn |-> "depositForBurn", amount |-> amount, chain |-> destination_chain_id]

\* The arguments. test_attester is read in simulate mode only (lines 405 and
\* 421-426 with _get_attestation 764), so the production calls are made without it.
InitSingle ==
    /\ FetchIdle /\ BridgeIdle /\ LockIdle /\ MonitorIdle /\ ExtraIdle
    /\ s_pc = "call"
    /\ \E d \in SingleChoices : s_chain = d.chain /\ s_amount = d.amount
    /\ s_simulate \in BOOLEAN
    /\ s_attester \in IF s_simulate THEN BOOLEAN ELSE {FALSE}
    /\ s_sent = <<>>
    /\ s_approve = "none"
    /\ s_burn = "none"
    /\ s_receive = "none"
    /\ s_att = "none"
    /\ s_result = <<>>
    /\ s_error = "none"

singleFrame == <<bridgeVars, lockVars, monitorVars, extraVars>>
singleArgs == <<s_chain, s_amount, s_simulate, s_attester>>

\* The exception of a step leaves bridge_usdc_cctp.
SingleRaise(step) ==
    /\ s_pc' = "raised"
    /\ s_error' = step

\* bridge.py:403-409 and burn_usdc_cctp 256-272: simulate mode without a
\* test_attester fails its assert (405-406); then the domain asserts
\* (258-259); then the approve call is built (270) and sent (272).
SingleBurnBegin ==
    /\ s_pc = "call"
    /\ IF s_simulate /\ ~s_attester
       THEN /\ SingleRaise("assert_attester")
            /\ UNCHANGED <<s_approve, s_sent>>
       ELSE IF IsCctpEnabled(SourceChainId) /\ IsCctpEnabled(s_chain)
       THEN /\ s_sent' = Append(s_sent, PrepareApproveForBurn(s_amount))
            /\ s_approve' = "sent"
            /\ s_pc' = "approve_wait"
            /\ UNCHANGED s_error
       ELSE /\ SingleRaise("assert_domain")
            /\ UNCHANGED <<s_approve, s_sent>>
    /\ UNCHANGED <<singleArgs, s_burn, s_receive, s_att, s_result, fetchVars, singleFrame>>

\* The chain mines a transaction of the flow that is in flight.
SingleChainMines(kind, ok) ==
    LET status == IF ok THEN "ok" ELSE "failed" IN
    /\ \/ /\ kind = "approve" /\ s_approve = "sent"
          /\ s_approve' = status
          /\ UNCHANGED <<s_burn, s_receive>>
       \/ /\ kind = "burn" /\ s_burn = "sent"
          /\ s_burn' = status
          /\ UNCHANGED <<s_approve, s_receive>>
       \/ /\ kind = "receive" /\ s_receive = "sent"
          /\ s_receive' = status
          /\ UNCHANGED <<s_approve, s_burn>>
    /\ UNCHANGED <<singleArgs, s_pc, s_sent, s_att, s_result, s_error, fetchVars,
                   singleFrame>>

\* burn_usdc_cctp 273-284: the approve is asserted, then the burn call is
\* built (277-282) and sent (284).
SingleBurnSend ==
    /\ s_pc = "approve_wait"
    /\ AfterApproveSent(s_approve) # "blocked"
    /\ IF AfterApproveSent(s_approve) = "pass"
       THEN /\ s_sent' = Append(s_sent, PrepareDepositForBurn(s_amount, s_chain))
            /\ s_burn' = "sent"
            /\ s_pc' = "burn_wait"
            /\ UNCHANGED s_error
       ELSE /\ SingleRaise("approve")
            /\ UNCHANGED <<s_burn, s_sent>>
    /\ UNCHANGED <<singleArgs, s_approve, s_receive, s_att, s_result, fetchVars, singleFrame>>

\* burn_usdc_cctp 285-294: the burn is asserted and its result returned.
SingleBurnDone ==
    /\ s_pc = "burn_wait"
    /\ AfterBurnSent(s_burn) # "blocked"
    /\ IF AfterBurnSent(s_burn) = "pass"
       THEN s_pc' = "attest" /\ UNCHANGED s_error
       ELSE SingleRaise("burn")
    /\ UNCHANGED <<singleArgs, s_sent, s_approve, s_burn, s_receive, s_att, s_result,
                   fetchVars, singleFrame>>

\* bridge.py:421 and _get_attestation 748-764: simulate mode forges the pair.
SingleAttestForge ==
    /\ s_pc = "attest" /\ s_simulate
    /\ s_att' = "forged"
    /\ s_pc' = "receive"
    /\ UNCHANGED <<singleArgs, s_sent, s_approve, s_burn, s_receive, s_result, s_error,
                   fetchVars, singleFrame>>

\* bridge.py:421-426 and _get_attestation 765-778: production mode calls
\* fetch_attestation with timeout=attestation_timeout, the default
\* poll_interval, and on_phase_change=None.
SingleAttestFetch(t) ==
    /\ s_pc = "attest" /\ ~s_simulate
    /\ fa_pc = "idle"
    /\ FetchStart(t, DefaultPollInterval, FALSE)

\* _get_attestation 779-780 and bridge.py:421: fetch_attestation returned and
\* its pair is passed on, or it raised.
SingleAttestDone ==
    /\ s_pc = "attest" /\ ~s_simulate
    /\ fa_pc \in FetchTerminal
    /\ IF fa_pc = "returned"
       THEN s_att' = "fetched" /\ s_pc' = "receive" /\ UNCHANGED s_error
       ELSE SingleRaise("attestation") /\ UNCHANGED s_att
    /\ UNCHANGED <<singleArgs, s_sent, s_approve, s_burn, s_receive, s_result, fetchVars,
                   singleFrame>>

\* bridge.py:429 and receive_usdc_cctp 333-336: the receive is sent.
SingleReceiveSend ==
    /\ s_pc = "receive"
    /\ s_receive' = "sent"
    /\ s_pc' = "receive_wait"
    /\ UNCHANGED <<singleArgs, s_sent, s_approve, s_burn, s_att, s_result, s_error,
                   fetchVars, singleFrame>>

\* receive_usdc_cctp 337-340 and bridge.py:438-444: the receive is asserted and
\* the result returned.
SingleReceiveDone ==
    /\ s_pc = "receive_wait"
    /\ AssertTransactionSuccess(s_receive) # "blocked"
    /\ IF AssertTransactionSuccess(s_receive) = "pass"
       THEN /\ s_pc' = "returned"
            /\ s_result' = [burn_tx_hash |-> TxHash("burn", SourceChainId, 1),
                            receive_tx_hash |-> TxHash("receive", s_chain, 1),
                            amount |-> s_amount,
                            source_chain_id |-> SourceChainId,
                            dest_chain_id |-> s_chain]
            /\ UNCHANGED s_error
       ELSE /\ SingleRaise("receive")
            /\ UNCHANGED s_result
    /\ UNCHANGED <<singleArgs, s_sent, s_approve, s_burn, s_receive, s_att, fetchVars,
                   singleFrame>>

NextSingle ==
    \/ SingleBurnBegin
    \/ \E kind \in {"approve", "burn", "receive"}, ok \in BOOLEAN :
          SingleChainMines(kind, ok)
    \/ SingleBurnSend
    \/ SingleBurnDone
    \/ SingleAttestForge
    \/ \E t \in 0..MaxTimeout : SingleAttestFetch(t)
    \/ LoopCheck
    \/ \E resp \in Responses, d \in 0..MaxQueryDur : Request(resp, d)
    \/ Sleep
    \/ SingleAttestDone
    \/ SingleReceiveSend
    \/ SingleReceiveDone

SpecSingle == InitSingle /\ [][NextSingle]_vars

\* ---------------------------------------------------- claims on bridge_usdc_cctp
\* The attestation step has begun: a pair was forged or fetch_attestation called.
SingleAttestBegun == s_att # "none" \/ fa_pc # "idle"

\* C17: the transactions are sent in the order approve, depositForBurn; the
\* burn is sent only after the approve is confirmed, the attestation
\* is sought only after the burn is confirmed, and the receive is sent only
\* after the attestation was obtained; the call returns only with a confirmed
\* receive; and when it has raised, the exception is that of a failed step (or
\* of an assert made before the first step) and no later step was started.
C17_SingleFlowInOrder ==
    /\ s_approve # "none" => (s_sent # <<>> /\ s_sent[1].fn = "approve")
    /\ s_burn # "none" =>
          (s_approve = "ok" /\ Len(s_sent) = 2 /\ s_sent[2].fn = "depositForBurn")
    /\ s_burn = "none" => Len(s_sent) <= 1
    /\ SingleAttestBegun => s_burn = "ok"
    /\ s_receive # "none" =>
          /\ s_att # "none"
          /\ s_simulate \/ fa_pc = "returned"
    /\ s_pc = "returned" =>
          /\ s_receive = "ok"
          /\ s_result.receive_tx_hash = TxHash("receive", s_chain, 1)
    /\ s_approve = "failed" => s_pc \in {"approve_wait", "raised"}
    /\ s_burn = "failed" => s_pc \in {"burn_wait", "raised"}
    /\ s_receive = "failed" => s_pc \in {"receive_wait", "raised"}
    /\ fa_pc \in FetchTerminal \ {"returned"} => s_pc \in {"attest", "raised"}
    /\ s_pc = "raised" =>
          /\ s_result = <<>>
          /\ s_error \in {"assert_attester", "assert_domain", "approve", "burn",
                         "attestation", "receive"}
          /\ s_error \in {"assert_attester", "assert_domain"} => s_approve = "none"
          /\ s_error = "approve" => s_approve = "failed" /\ s_burn = "none"
          /\ s_error = "burn" => s_burn = "failed" /\ ~SingleAttestBegun
          /\ s_error = "attestation" =>
                fa_pc \in FetchTerminal \ {"returned"} /\ s_att = "none"
          /\ s_error = "receive" => s_receive = "failed"
          /\ s_error # "receive" => s_receive = "none"

\* A production call that returned after its attestation was polled twice.
C17_Witness ==
    /\ s_pc = "returned" /\ ~s_simulate
    /\ attempt = 2 /\ s_att = "fetched"

\* ============================================== _update_phase, line by line
\* The threads of one bridge_usdc_cctp_parallel call (the calling thread and
\* the pool workers) call _update_phase with any transfer, phase and attempt.
Threads == 1..MaxThreads

IdleThread == [pc |-> "idle", idx |-> 0, phase |-> "burning", attempt |-> 0,
               old_phase |-> "burning"]

\* The lines of _update_phase inside "with lock:".
UnderLock == {"counts", "compare", "advance", "describe"}

\* Mutant: the lock is entered while another thread holds it.
LockAvailable_Always(holder) == TRUE

\* bridge.py:564  with lock: entered only when no thread holds the lock
LockAvailable(holder) == holder = 0

\* bridge.py:550-560: the tracker as set up for n transfers, no thread in it.
InitTracker ==
    /\ FetchIdle /\ CallIdle /\ SingleIdle /\ MonitorIdle /\ ExtraIdle
    /\ \E n \in 1..MaxDest :
          /\ transfer_phases = [i \in 1..n |-> "burning"]
          /\ poll_counts = [i \in 1..n |-> 0]
          /\ progress_bar = [n |-> 0, total |-> n * Len(CCTPBridgePhase),
                             desc |-> <<>>, postfix |-> 0]
    /\ lock = 0
    /\ th = [t \in Threads |-> IdleThread]
    /\ updates = 0

trackerFrame == <<fetchVars, singleVars, monitorVars, extraVars, destinations, simulate,
                  test_attesters, max_workers_arg, max_workers, bpc, bidx, approve_tx, burn_tx, receive_tx,
                  receive_sent, burn_results, task, task_at, task_attempt, fetched,
                  indexed_results, attestation_data, receive_tx_hashes, collected,
                  results, error>>

\* bridge.py:562: thread t calls _update_phase and waits for the lock.
UpdCall(t) ==
    /\ th[t].pc = "idle"
    /\ updates < MaxUpdates
    /\ updates' = updates + 1
    /\ th' = [th EXCEPT ![t].pc = "acquire"]
    /\ UNCHANGED <<lock, trackerVars, trackerFrame>>

\* bridge.py:564: the thread enters the lock. Its arguments idx, phase and
\* attempt, which no other thread can see, are recorded here.
UpdAcquire(t, idx, phase, att) ==
    /\ th[t].pc = "acquire"
    /\ LockAvailable(lock)
    /\ lock' = t
    /\ th' = [th EXCEPT ![t] = [pc |-> "counts", idx |-> idx, phase |-> phase,
                                 attempt |-> att, old_phase |-> "burning"]]
    /\ UNCHANGED <<updates, trackerVars, trackerFrame>>

\* bridge.py:565-567: poll_counts[idx] is set for a positive attempt and
\* old_phase is read.
UpdCounts(t) ==
    /\ th[t].pc = "counts"
    /\ poll_counts' = IF th[t].attempt > 0
                      THEN [poll_counts EXCEPT ![th[t].idx] = th[t].attempt]
                      ELSE poll_counts
    /\ th' = [th EXCEPT ![t].pc = "compare",
                        ![t].old_phase = transfer_phases[th[t].idx]]
    /\ UNCHANGED <<lock, updates, transfer_phases, progress_bar, trackerFrame>>

\* bridge.py:568-571: the phase is the stored one: the postfix is refreshed and
\* the call returns, leaving the lock.
UpdSame(t) ==
    /\ th[t].pc = "compare"
    /\ SamePhase(th[t].phase, th[t].old_phase)
    /\ progress_bar' = [progress_bar EXCEPT !.postfix = SumSeq(poll_counts)]
    /\ lock' = 0
    /\ th' = [th EXCEPT ![t] = IdleThread]
    /\ UNCHANGED <<updates, transfer_phases, poll_counts, trackerFrame>>

\* bridge.py:568, 572: another phase: it is stored.
UpdWritePhase(t) ==
    /\ th[t].pc = "compare"
    /\ ~SamePhase(th[t].phase, th[t].old_phase)
    /\ transfer_phases' = [transfer_phases EXCEPT ![th[t].idx] = th[t].phase]
    /\ th' = [th EXCEPT ![t].pc = "advance"]
    /\ UNCHANGED <<lock, updates, poll_counts, progress_bar, trackerFrame>>

\* bridge.py:574-578: the bar is advanced.
UpdAdvance(t) ==
    /\ th[t].pc = "advance"
    /\ progress_bar' = [progress_bar EXCEPT
                           !.n = @ + Advance(th[t].old_phase, th[t].phase)]
    /\ th' = [th EXCEPT ![t].pc = "describe"]
    /\ UNCHANGED <<lock, updates, transfer_phases, poll_counts, trackerFrame>>

\* bridge.py:580-582: the description is rebuilt from all the stored phases,
\* the postfix from all the counters, and the call returns, leaving the lock.
UpdDescribe(t) ==
    /\ th[t].pc = "describe"
    /\ progress_bar' = [progress_bar EXCEPT !.desc = transfer_phases,
                                            !.postfix = SumSeq(poll_counts)]
    /\ lock' = 0
    /\ th' = [th EXCEPT ![t] = IdleThread]
    /\ UNCHANGED <<updates, transfer_phases, poll_counts, trackerFrame>>

PhaseNames == {CCTPBridgePhase[k] : k \in 1..Len(CCTPBridgePhase)}

NextTracker ==
    \/ \E t \in Threads : UpdCall(t)
    \/ \E t \in Threads, idx \in 1..Len(transfer_phases), phase \in PhaseNames,
          att \in {0, updates} : UpdAcquire(t, idx, phase, att)
    \/ \E t \in Threads : UpdCounts(t)
    \/ \E t \in Threads : UpdSame(t)
    \/ \E t \in Threads : UpdWritePhase(t)
    \/ \E t \in Threads : UpdAdvance(t)
    \/ \E t \in Threads : UpdDescribe(t)

SpecTracker == InitTracker /\ [][NextTracker]_vars

\* ------------------------------------------------- claims on _update_phase
AllIdle == lock = 0 /\ \A t \in DOMAIN th : th[t].pc = "idle"

PhaseOrdinals == [i \in 1..Len(transfer_phases) |-> PhaseIndex(transfer_phases[i])]

\* The step in which thread t moves the bar (bridge.py:574-578).
Advancing(t) == th[t].pc = "advance" /\ th'[t].pc = "describe"

\* C11: no step of any thread decreases the cumulative advancement counter
\* (progress_bar.n): the step of an update that moves the bar adds
\* max(0, new ordinal - old ordinal), where new is the phase just stored for
\* the transfer and old the phase it replaced, and no other step changes it.
C11_CounterNeverDecreases ==
    [][ /\ progress_bar'.n >= progress_bar.n
        /\ \A t \in DOMAIN th :
              Advancing(t) =>
                 progress_bar'.n = progress_bar.n
                    + Max(0, PhaseIndex(transfer_phases[th[t].idx])
                             - PhaseIndex(th[t].old_phase))
        /\ (\A t \in DOMAIN th : ~Advancing(t)) => progress_bar'.n = progress_bar.n
      ]_vars

\* Some transfer's phase went backwards: the counter is ahead of the sum of
\* the stored ordinals, here with a transfer back at pending_confirmations.
C11_Witness ==
    /\ AllIdle
    /\ \E i \in 1..Len(transfer_phases) : transfer_phases[i] = "pending_confirmations"
    /\ progress_bar.n > SumSeq(PhaseOrdinals)

\* Thread t is inside an update whose phase equals the stored phase of its
\* transfer (the stored one before old_phase is read, old_phase afterwards).
InSamePhaseUpdate(t) ==
    /\ lock = t
    /\ \/ th[t].pc = "counts" /\ th[t].phase = transfer_phases[th[t].idx]
       \/ th[t].pc \in UnderLock \ {"counts"} /\ th[t].phase = th[t].old_phase

\* C12: while an update whose phase equals the transfer's current phase is
\* running, no step changes the stored phase of any transfer, the cumulative
\* advancement counter or the description, and the poll counter of no other
\* transfer changes.
C12_SamePhaseOnlyRefreshesCounter ==
    [][ \A t \in DOMAIN th :
           InSamePhaseUpdate(t) =>
              /\ transfer_phases' = transfer_phases
              /\ progress_bar'.n = progress_bar.n
              /\ progress_bar'.desc = progress_bar.desc
              /\ \A j \in 1..Len(poll_counts) :
                    j # th[t].idx => poll_counts'[j] = poll_counts[j]
      ]_vars

\* A same-phase update with a positive attempt has completed and nothing else
\* has changed a phase: the counter and the postfix moved, the description and
\* the bar did not.
C12_Witness ==
    /\ AllIdle /\ updates >= 1
    /\ \E i \in 1..Len(transfer_phases) :
          poll_counts[i] > 0 /\ transfer_phases[i] = "burning"
    /\ progress_bar.postfix > 0
    /\ progress_bar.desc = <<>> /\ progress_bar.n = 0

\* C13: a thread that is at a line of _update_phase reading or writing
\* transfer_phases or poll_counts holds the lock, so at most one thread is at
\* such a line; and while one thread has stored a phase and not yet advanced
\* the bar, no other thread is at a line that reads the tracker.
C13_TrackerAccessUnderLock ==
    /\ \A t \in DOMAIN th : th[t].pc \in UnderLock => lock = t
    /\ \A t, u \in DOMAIN th :
          (t # u /\ th[t].pc = "advance") => th[u].pc \notin UnderLock

\* One thread between storing the phase and advancing the bar, another one
\* waiting for the lock.
C13_Witness ==
    \E t, u \in DOMAIN th : th[t].pc = "advance" /\ th[u].pc = "acquire"

\* ------------------------------------------ claim on the amounts of a bridge call
\* (checked on bridge_usdc_cctp, SpecSingle)
\* C23: no approve and no depositForBurn is submitted for an amount that is
\* zero or negative.
C23_NoTransactionForNonPositiveAmount ==
    /\ s_amount <= 0 => (s_approve = "none" /\ s_burn = "none")
    /\ \A k \in 1..Len(s_sent) : s_sent[k].amount > 0

\* ====================================================== poll_transfers_parallel
\* monitor.py:126  CCTPTransferQuery; a hash may come without its 0x prefix.
TransferChoices ==
    { [source_domain |-> 3, transaction_hash |-> "0xaa"],
      [source_domain |-> 0, transaction_hash |-> "bb"] }

TransferLists == UNION { [1..n -> TransferChoices] : n \in 0..MaxTransfers }

\* monitor.py:220-221  the hash with 0x in front when it does not start with it
With0x(transaction_hash) ==
    IF transaction_hash = "bb" THEN "0xbb" ELSE transaction_hash

\* monitor.py:353  bytes.fromhex(attestation_hex.replace("0x", "")), the bytes
\* written as hex digits
FromHex(attestation_hex) ==
    IF attestation_hex = "0xdead" THEN "dead" ELSE attestation_hex

\* monitor.py:346-379  _parse_transfer_status(msg, source_domain, transaction_hash)
ParseTransferStatus(msg, source_domain, transaction_hash) ==
    [status |-> msg.status,
     attestation |-> IF Truthy(msg.attestation) /\ msg.attestation # "PENDING"
                     THEN FromHex(msg.attestation) ELSE None,
     source_domain |-> source_domain,
     transaction_hash |-> transaction_hash]

\* The value of a call that has not returned one.
NoStatus == [status |-> "", attestation |-> None, source_domain |-> 0,
             transaction_hash |-> ""]

\* monitor.py:170-184  fetch_transfer_status: what the query leads to (the
\* exception of requests.get or raise_for_status, None, or a parsed status)
FetchTransferStatus(resp, source_domain, transaction_hash) ==
    IF ~resp.transport THEN [kind |-> "raise", status |-> NoStatus]
    ELSE IF resp.code = HTTP_NOT_FOUND THEN [kind |-> "none", status |-> NoStatus]
    ELSE IF RaisesForStatus(resp) THEN [kind |-> "raise", status |-> NoStatus]
    ELSE IF resp.messages = <<>> THEN [kind |-> "none", status |-> NoStatus]
    ELSE [kind |-> "status",
          status |-> ParseTransferStatus(resp.messages[1], source_domain,
                                         transaction_hash)]

\* Mutant: the status alone decides, the attestation is not looked at.
IsComplete_StatusOnly(status) == status.status = "complete"

\* monitor.py:110-112  CCTPTransferStatus.is_complete
IsComplete(status) == status.status = "complete" /\ status.attestation # None

\* The arguments; max_workers None becomes len(transfers) (297-298).
InitMonitor ==
    /\ FetchIdle /\ BridgeIdle /\ LockIdle /\ SingleIdle /\ ExtraIdle
    /\ transfers \in TransferLists
    /\ m_timeout \in 0..MaxPoolTimeout
    /\ m_poll \in 1..MaxPoll
    /\ m_workers \in IF Len(transfers) <= 1 THEN {Len(transfers)}
                     ELSE {1, Len(transfers)}
    /\ m_pc = "call"
    /\ m_now = 0
    /\ m_idx = 0
    /\ m_task = [i \in 1..Len(transfers) |-> "new"]
    /\ m_at = [i \in 1..Len(transfers) |-> "none"]
    /\ m_start = [i \in 1..Len(transfers) |-> 0]
    /\ m_wake = [i \in 1..Len(transfers) |-> 0]
    /\ m_end = [i \in 1..Len(transfers) |-> 0]
    /\ m_value = [i \in 1..Len(transfers) |-> NoStatus]
    /\ m_results = <<>>
    /\ m_collected = <<>>
    /\ m_returned = <<>>
    /\ m_error = [kind |-> "none", idx |-> 0]

monitorFrame == <<fetchVars, bridgeVars, lockVars, singleVars, extraVars>>
monitorArgs == <<transfers, m_timeout, m_poll, m_workers>>
monitorTaskVars == <<m_task, m_at, m_start, m_wake, m_end, m_value>>

n_transfers == Len(transfers)
MonPool == {"submit", "collect", "shutdown"}
MonActive == {i \in 1..n_transfers : m_task[i] = "running"}
MonEnded == {i \in 1..n_transfers : m_task[i] \in {"done", "timeout", "error"}}

\* monitor.py:294-300: the empty list returns at once.
MonEnter ==
    /\ m_pc = "call"
    /\ IF transfers = <<>>
       THEN m_pc' = "returned" /\ UNCHANGED m_idx
       ELSE m_pc' = "submit" /\ m_idx' = 1
    /\ UNCHANGED <<monitorArgs, m_now, monitorTaskVars, m_results, m_collected,
                   m_returned, m_error, monitorFrame>>

\* monitor.py:307-316: poll_transfer_status of the next transfer is submitted.
MonSubmit ==
    /\ m_pc = "submit"
    /\ m_task' = [m_task EXCEPT ![m_idx] = "queued"]
    /\ IF m_idx < n_transfers
       THEN m_idx' = m_idx + 1 /\ m_pc' = "submit"
       ELSE m_idx' = m_idx /\ m_pc' = "collect"
    /\ UNCHANGED <<monitorArgs, m_now, m_at, m_start, m_wake, m_end, m_value,
                   m_results, m_collected, m_returned, m_error, monitorFrame>>

\* ThreadPoolExecutor(max_workers=max_workers): a worker takes a submitted
\* call off the queue when fewer than max_workers calls are running, in
\* submission order.
MonWorkerFree(i) ==
    /\ m_pc \in MonPool
    /\ m_task[i] = "queued"
    /\ Cardinality(MonActive) < m_workers
    /\ \A j \in 1..(i - 1) : m_task[j] # "queued"

\* monitor.py:305-316: a worker takes the call off the queue; its future is
\* RUNNING before the first line of poll_transfer_status runs.
MonTaskDequeue(i) ==
    /\ MonWorkerFree(i)
    /\ m_task' = [m_task EXCEPT ![i] = "running"]
    /\ m_at' = [m_at EXCEPT ![i] = "start"]
    /\ UNCHANGED <<monitorArgs, m_pc, m_now, m_idx, m_start, m_wake, m_end,
                   m_value, m_results, m_collected, m_returned, m_error, monitorFrame>>

\* monitor.py:220-224: the first lines of poll_transfer_status, which read the
\* clock for start_time; the calls taken by different workers run them in any
\* order.
MonTaskStart(i) ==
    /\ m_pc \in MonPool
    /\ m_task[i] = "running" /\ m_at[i] = "start"
    /\ m_at' = [m_at EXCEPT ![i] = "loop"]
    /\ m_start' = [m_start EXCEPT ![i] = m_now]
    /\ UNCHANGED <<monitorArgs, m_pc, m_now, m_idx, m_task, m_wake, m_end,
                   m_value, m_results, m_collected, m_returned, m_error, monitorFrame>>

\* The call is at the head of its while loop: it has just started, or its
\* time.sleep has ended.
MonAtLoopHead(i) ==
    /\ m_pc \in MonPool
    /\ \/ m_at[i] = "loop"
       \/ m_at[i] = "sleep" /\ m_now >= m_wake[i]

\* monitor.py:227-229: the loop finds the timeout elapsed and raises TimeoutError.
MonTaskTimeout(i) ==
    /\ MonAtLoopHead(i)
    /\ TimedOut(m_now - m_start[i], m_timeout)
    /\ m_task' = [m_task EXCEPT ![i] = "timeout"]
    /\ m_at' = [m_at EXCEPT ![i] = "ended"]
    /\ m_end' = [m_end EXCEPT ![i] = m_now]
    /\ UNCHANGED <<monitorArgs, m_pc, m_now, m_idx, m_start, m_wake, m_value,
                   m_results, m_collected, m_returned, m_error, monitorFrame>>

\* monitor.py:227-240 and 165-170: the loop finds the timeout not elapsed,
\* counts the attempt and issues the query; the call waits in requests.get,
\* which the service answers after d.
MonTaskRequest(i, d) ==
    /\ MonAtLoopHead(i)
    /\ ~TimedOut(m_now - m_start[i], m_timeout)
    /\ m_at' = [m_at EXCEPT ![i] = "request"]
    /\ m_wake' = [m_wake EXCEPT ![i] = m_now + d]
    /\ UNCHANGED <<monitorArgs, m_pc, m_now, m_idx, m_task, m_start, m_end,
                   m_value, m_results, m_collected, m_returned, m_error, monitorFrame>>

\* The answer to the query of the call has arrived.
MonAnswered(i) ==
    /\ m_pc \in MonPool
    /\ m_at[i] = "request" /\ m_now >= m_wake[i]

\* monitor.py:170-184 and 242-255: requests.get is answered: the return of a
\* complete status, the raise of the query's exception, or
\* time.sleep(poll_interval) from the time of the answer.
MonTaskAnswer(i, resp) ==
    /\ MonAnswered(i)
    /\ LET got == FetchTransferStatus(resp, transfers[i].source_domain,
                                      With0x(transfers[i].transaction_hash)) IN
       IF got.kind = "raise"
       THEN /\ m_task' = [m_task EXCEPT ![i] = "error"]
            /\ m_at' = [m_at EXCEPT ![i] = "ended"]
            /\ m_end' = [m_end EXCEPT ![i] = m_now]
            /\ UNCHANGED <<m_wake, m_value>>
       ELSE IF got.kind = "status" /\ IsComplete(got.status)
       THEN /\ m_task' = [m_task EXCEPT ![i] = "done"]
            /\ m_at' = [m_at EXCEPT ![i] = "ended"]
            /\ m_end' = [m_end EXCEPT ![i] = m_now]
            /\ m_value' = [m_value EXCEPT ![i] = got.status]
            /\ UNCHANGED m_wake
       ELSE /\ m_at' = [m_at EXCEPT ![i] = "sleep"]
            /\ m_wake' = [m_wake EXCEPT ![i] = m_now + m_poll]
            /\ UNCHANGED <<m_task, m_end, m_value>>
    /\ UNCHANGED <<monitorArgs, m_pc, m_now, m_idx, m_start, m_results,
                   m_collected, m_returned, m_error, monitorFrame>>

\* Mutant: the list is built in the order the polls were collected.
MonReturnList_CompletionOrder(res, order) == [k \in 1..Len(order) |-> res[order[k]]]

\* monitor.py:324  [results[i] for i in range(len(transfers))]
MonReturnList(res, order) == [i \in 1..Len(order) |-> res[i]]

\* monitor.py:321  future.result(): the value the call returned, or its
\* exception raised again
MonFutureResult(state) == IF state = "done" THEN "value" ELSE "raise"

\* monitor.py:318-324: as_completed yields an ended future and result() stores
\* its status or raises its exception; after the last one the list is returned.
MonCollect(i) ==
    /\ m_pc = "collect"
    /\ i \in MonEnded \ {m_collected[k] : k \in 1..Len(m_collected)}
    /\ IF MonFutureResult(m_task[i]) = "value"
       THEN /\ m_results' = (i :> m_value[i]) @@ m_results
            /\ m_collected' = Append(m_collected, i)
            /\ IF Len(m_collected') = n_transfers
               THEN /\ m_returned' = MonReturnList(m_results', m_collected')
                    /\ m_pc' = "returned"
               ELSE UNCHANGED <<m_returned, m_pc>>
            /\ UNCHANGED m_error
       ELSE /\ m_pc' = "shutdown"
            /\ m_error' = [kind |-> m_task[i], idx |-> i]
            /\ UNCHANGED <<m_results, m_collected, m_returned>>
    /\ UNCHANGED <<monitorArgs, m_now, m_idx, monitorTaskVars, monitorFrame>>

\* monitor.py:305-321: the exception leaves the with block and then the call.
MonShutdown ==
    /\ m_pc = "shutdown"
    /\ ShutdownWaits(MonEnded, n_transfers)
    /\ m_pc' = "raised"
    /\ UNCHANGED <<monitorArgs, m_now, m_idx, monitorTaskVars, m_results,
                   m_collected, m_returned, m_error, monitorFrame>>

\* Some thread can run a line without waiting (scheduling and the lines
\* between the waits are taken to be instantaneous: time passes in
\* requests.get and in time.sleep only).
MonCanAct ==
    \/ m_pc \in {"call", "submit"}
    \/ \E i \in 1..n_transfers : MonWorkerFree(i) \/ MonAtLoopHead(i) \/ MonAnswered(i)
    \/ \E i \in 1..n_transfers : m_pc \in MonPool /\ m_at[i] = "start"
    \/ m_pc = "collect" /\ MonEnded \ {m_collected[k] : k \in 1..Len(m_collected)} # {}
    \/ m_pc = "shutdown" /\ ShutdownWaits(MonEnded, n_transfers)

\* The clock moves on while every thread is waiting and some call is asleep
\* or in requests.get.
MonTick ==
    /\ ~MonCanAct
    /\ \E i \in 1..n_transfers : m_at[i] \in {"sleep", "request"}
    /\ m_now' = m_now + 1
    /\ UNCHANGED <<monitorArgs, m_pc, m_idx, monitorTaskVars, m_results,
                   m_collected, m_returned, m_error, monitorFrame>>

NextMonitor ==
    \/ MonEnter
    \/ MonSubmit
    \/ \E i \in 1..n_transfers : MonTaskDequeue(i)
    \/ \E i \in 1..n_transfers : MonTaskStart(i)
    \/ \E i \in 1..n_transfers : MonTaskTimeout(i)
    \/ \E i \in 1..n_transfers, d \in 0..MaxPoolQueryDur : MonTaskRequest(i, d)
    \/ \E i \in 1..n_transfers, resp \in Responses : MonTaskAnswer(i, resp)
    \/ \E i \in 1..n_transfers : MonCollect(i)
    \/ MonShutdown
    \/ MonTick

SpecMonitor == InitMonitor /\ [][NextMonitor]_vars

\* ------------------------------------------- claims on poll_transfers_parallel
\* C18: when the call has returned, the list has one status per input
\* transfer and the i-th status is a complete status of the i-th transfer: it
\* carries that transfer's source domain and transaction hash (0x-prefixed) and
\* is the value the i-th poll returned.
C18_StatusesInInputOrder ==
    m_pc = "returned" =>
        /\ Len(m_returned) = Len(transfers)
        /\ \A i \in 1..Len(transfers) :
              /\ m_returned[i].source_domain = transfers[i].source_domain
              /\ m_returned[i].transaction_hash = With0x(transfers[i].transaction_hash)
              /\ IsComplete(m_returned[i])
              /\ m_returned[i] = m_value[i]

\* Two different transfers, the second one's poll collected first.
C18_Witness ==
    /\ m_pc = "returned"
    /\ Len(transfers) = 2 /\ transfers[1] # transfers[2]
    /\ m_collected = <<2, 1>>

\* C19: once a poll has failed the call never returns a list; the exception
\* that leaves the call is that of a failed poll (its TimeoutError or the
\* error of its query); and when it leaves, every sibling poll has run to its
\* own end: it returned its status, raised the error of its own query, or
\* raised TimeoutError no sooner than timeout after its own start.
C19_FailurePropagatesNoCancel ==
    /\ (\E i \in 1..n_transfers : m_task[i] \in {"timeout", "error"})
          => m_pc # "returned"
    /\ m_pc \in {"shutdown", "raised"} =>
          /\ m_error.idx \in 1..n_transfers
          /\ m_task[m_error.idx] \in {"timeout", "error"}
          /\ m_error.kind = m_task[m_error.idx]
    /\ m_pc = "raised" => MonEnded = 1..n_transfers
    /\ \A j \in 1..n_transfers :
          m_task[j] = "timeout" => m_end[j] - m_start[j] >= m_timeout

\* The call raised the failure of one poll, and a sibling returned its
\* complete status later than that failure.
C19_Witness ==
    /\ m_pc = "raised"
    /\ \E j \in 1..n_transfers :
          /\ j # m_error.idx
          /\ m_task[j] = "done"
          /\ m_end[j] > m_end[m_error.idx]

\* C20 as stated: the call ends no later than timeout plus one poll interval
\* after it started, and it returns a list only if every transfer reached
\* complete within timeout of the start of the call.
C20_TimeoutBoundsTheCall ==
    /\ m_pc \in {"returned", "raised"} => m_now <= m_timeout + m_poll
    /\ m_pc = "returned" => \A i \in 1..n_transfers : m_end[i] <= m_timeout

\* ------------------------------------------------- the three worker pools
\* One call that has a worker pool: a production call of
\* bridge_usdc_cctp_parallel (its attestation pool and its receive pool; the
\* simulate mode has none), or a call of poll_transfers_parallel (with one
\* tick of the clock as its poll interval).
InitPools ==
    \/ Init /\ ~simulate
    \/ InitMonitor /\ m_poll = 1

NextPools ==
    \/ BridgeEnter
    \/ BurnBegin
    \/ BurnSend
    \/ BurnDone
    \/ \E kind \in {"approve", "burn", "receive"}, i \in 1..n_dest, ok \in BOOLEAN :
          ChainMines(kind, i, ok)
    \/ AttestReport
    \/ AttestSubmit
    \/ \E i \in 1..n_dest : AttestTaskDequeue(i)
    \/ \E i \in 1..n_dest : AttestTaskStart(i)
    \/ \E i \in 1..n_dest : AttestTaskLoop(i)
    \/ \E i \in 1..n_dest : AttestTaskTimeout(i)
    \/ \E i \in 1..n_dest, resp \in Responses : AttestTaskAnswer(i, resp)
    \/ \E i \in 1..n_dest : AttestTaskReturn(i)
    \/ \E i \in 1..n_dest : AttestCollect(i)
    \/ ReceiveSubmit
    \/ \E i \in 1..n_dest : ReceiveTaskDequeue(i)
    \/ \E i \in 1..n_dest : ReceiveTaskStart(i)
    \/ \E i \in 1..n_dest : ReceiveTaskSend(i)
    \/ \E i \in 1..n_dest : ReceiveTaskDone(i)
    \/ \E i \in 1..n_dest : ReceiveTaskReturn(i)
    \/ \E i \in 1..n_dest : ReceiveCollect(i)
    \/ PoolShutdown
    \/ NextMonitor

SpecPools == InitPools /\ [][NextPools]_vars

\* C29: when a call has ended, by a return or by the exception of a failed
\* pool task, no task of its pools is queued or running any more: every poll
\* of poll_transfers_parallel and every attestation wait and receive of
\* bridge_usdc_cctp_parallel has run to its own end, and the failure that
\* left the call is that of a task that ended by failing.
C29_NoTaskOutlivesTheCall ==
    /\ bpc \in {"raised", "returned"} =>
          /\ \A i \in 1..n_dest : task[i] \notin {"queued", "running"}
          /\ \A i \in 1..n_dest : task_at[i] \in {"none", "ended"}
          /\ error.kind \in {"attestation", "receive"} =>
                (Finished = 1..n_dest /\ task[error.idx] = "failed")
    /\ m_pc \in {"raised", "returned"} =>
          /\ \A i \in 1..n_transfers : m_task[i] \in {"done", "timeout", "error"}
          /\ \A i \in 1..n_transfers : m_at[i] = "ended"
          /\ m_pc = "raised" => m_task[m_error.idx] \in {"timeout", "error"}

\* poll_transfers_parallel raised the failure of one poll after a sibling,
\* which was still polling when that poll failed, had run into its own
\* timeout.
C29_Witness ==
    /\ m_pc = "raised" /\ n_transfers = 2
    /\ \E j \in 1..n_transfers :
          /\ j # m_error.idx
          /\ m_task[j] = "timeout"
          /\ m_end[j] > m_end[m_error.idx]

\* =========================================== poll_transfer_status, on its own
\* One call of poll_transfer_status and one call of fetch_attestation with the
\* same timeout and poll_interval, against a service that gives both the same
\* answers after the same delays: poll_transfer_status goes first and p_hist
\* keeps what it was answered, fetch_attestation is answered from p_hist.
PollTerminal == {"returned", "timeout", "http_error", "transport_error"}

InitEquiv ==
    /\ FetchIdle /\ BridgeIdle /\ LockIdle /\ SingleIdle /\ MonitorIdle /\ CheckIdle /\ GmxIdle /\ BlockIdle
    /\ ReportIdle
    /\ p_pc = "call"
    /\ p_query \in TransferChoices
    /\ p_timeout \in 0..MaxTimeout
    /\ p_poll \in 1..MaxPoll
    /\ p_clock = 0
    /\ p_attempt = 0
    /\ p_hist = <<>>
    /\ p_value = NoStatus

pollFrame == <<fetchVars, bridgeVars, lockVars, singleVars, monitorVars, checkVars, gmxVars,
              blockVars, reportVars>>
pollArgs == <<p_timeout, p_poll>>

\* Both calls are at the same place of their loops.
SamePosition == fa_pc = p_pc /\ attempt = p_attempt

\* poll_transfer_status takes the next step when fetch_attestation has caught
\* up with it (or has ended); fetch_attestation when it is behind.
PollTurn == SamePosition \/ fa_pc \in FetchTerminal \/ p_pc = "call"

\* monitor.py:220-224: the 0x prefix, start_time, attempt = 0
PtsEnter ==
    /\ p_pc = "call"
    /\ p_pc' = "loop"
    /\ p_query' = [p_query EXCEPT !.transaction_hash = With0x(@)]
    /\ p_clock' = 0
    /\ p_attempt' = 0
    /\ UNCHANGED <<pollArgs, p_hist, p_value>>
    /\ UNCHANGED pollFrame

\* monitor.py:226-231: the loop head raises TimeoutError or counts the attempt.
PtsLoopCheck ==
    /\ p_pc = "loop"
    /\ PollTurn
    /\ IF TimedOut(p_clock, p_timeout)
       THEN /\ p_pc' = "timeout"
            /\ UNCHANGED p_attempt
       ELSE /\ p_pc' = "request"
            /\ p_attempt' = p_attempt + 1
    /\ UNCHANGED <<p_query, pollArgs, p_clock, p_hist, p_value>>
    /\ UNCHANGED pollFrame

\* monitor.py:240-253: fetch_transfer_status is answered resp after d ticks;
\* None and a status that is not complete go on to the sleep.
PtsRequest(resp, d) ==
    /\ p_pc = "request"
    /\ PollTurn
    /\ LET r == FetchTransferStatus(resp, p_query.source_domain,
                                    p_query.transaction_hash) IN
       /\ p_pc' = IF r.kind = "raise"
                  THEN (IF resp.transport THEN "http_error" ELSE "transport_error")
                  ELSE IF r.kind = "status" /\ IsComplete(r.status) THEN "returned"
                  ELSE "sleep"
       /\ p_value' = IF r.kind = "status" /\ IsComplete(r.status)
                     THEN r.status ELSE p_value
    /\ p_clock' = p_clock + d
    /\ p_hist' = Append(p_hist, [resp |-> resp, d |-> d])
    /\ UNCHANGED <<p_query, pollArgs, p_attempt>>
    /\ UNCHANGED pollFrame

\* monitor.py:255  time.sleep(poll_interval)
PtsSleep ==
    /\ p_pc = "sleep"
    /\ PollTurn
    /\ p_clock' = p_clock + p_poll
    /\ p_pc' = "loop"
    /\ UNCHANGED <<p_query, pollArgs, p_attempt, p_hist, p_value>>
    /\ UNCHANGED pollFrame

\* fetch_attestation is called with the same timeout and poll_interval, and
\* on_phase_change left at its default, None (poll_transfer_status has no
\* callback).
EquivFetchStart ==
    /\ fa_pc = "idle"
    /\ p_pc = "loop" /\ p_attempt = 0
    /\ FetchStart(p_timeout, p_poll, FALSE)

\* fetch_attestation's query number k is answered as poll_transfer_status's
\* query number k was.
EquivRequest ==
    /\ ~PollTurn \/ p_pc \in PollTerminal
    /\ attempt \in 1..Len(p_hist)
    /\ Request(p_hist[attempt].resp, p_hist[attempt].d)

EquivLoopCheck == (~PollTurn \/ p_pc \in PollTerminal) /\ LoopCheck

EquivSleep == (~PollTurn \/ p_pc \in PollTerminal) /\ Sleep

NextEquiv ==
    \/ PtsEnter
    \/ PtsLoopCheck
    \/ \E resp \in Responses, d \in 0..MaxQueryDur : PtsRequest(resp, d)
    \/ PtsSleep
    \/ EquivFetchStart
    \/ EquivLoopCheck
    \/ EquivRequest
    \/ EquivSleep

SpecEquiv == InitEquiv /\ [][NextEquiv]_vars

\* C21: on the same answers, timeout and poll interval, poll_transfer_status
\* and fetch_attestation issue the same number of status queries and end the
\* same way: neither has ended while the other goes on to a further query,
\* and once both have ended their attempt counters and outcomes (return,
\* TimeoutError, HTTP error, transport error) are equal.
C21_SameRetrySemantics ==
    /\ fa_pc \in FetchTerminal => p_attempt = attempt
    /\ p_pc \in PollTerminal => attempt <= p_attempt
    /\ (fa_pc \in FetchTerminal /\ p_pc \in PollTerminal)
       => fa_pc = p_pc

\* Both returned on the second query, after a first answer that was complete
\* without a usable attestation.
C21_Witness ==
    /\ fa_pc = "returned" /\ p_pc = "returned"
    /\ attempt = 2 /\ p_attempt = 2
    /\ IsCompleteWith(p_hist[1].resp, {None, "", "PENDING"})

\* ================================================= is_attestation_complete
\* One call of is_attestation_complete, and one call of fetch_attestation
\* whose first query gets the same answer from the service.

\* requests.exceptions: HTTPError (raise_for_status) and ConnectionError
\* (requests.get) are both subclasses of RequestException.
RequestExceptions == {"ConnectionError", "HTTPError"}

\* Mutant: only the failure of requests.get itself is caught.
Caught_TransportOnly(exc) == exc = "ConnectionError"

\* attestation.py:258  except requests.RequestException
Caught(exc) == exc \in RequestExceptions

\* attestation.py:257  msg.get("status") == "complete" and
\* msg.get("attestation") not in {None, "PENDING"}
IsAttestationReady(msg) ==
    msg.status = "complete" /\ msg.attestation \notin {None, "PENDING"}

InitCheck ==
    /\ FetchIdle /\ BridgeIdle /\ LockIdle /\ SingleIdle /\ MonitorIdle /\ PollIdle /\ GmxIdle /\ BlockIdle
    /\ ReportIdle
    /\ c_pc = "call"
    /\ c_query \in TransferChoices
    /\ c_resp \in Responses
    /\ c_queries = 0
    /\ c_exc = "none"
    /\ c_result = FALSE

checkFrame == <<fetchVars, bridgeVars, lockVars, singleVars, monitorVars, pollVars, gmxVars,
               blockVars, reportVars>>

\* attestation.py:245-251: the 0x prefix, then requests.get, which raises on a
\* transport failure.
IacGet ==
    /\ c_pc = "call"
    /\ c_query' = [c_query EXCEPT !.transaction_hash = With0x(@)]
    /\ c_queries' = c_queries + 1
    /\ IF c_resp.transport
       THEN c_pc' = "got" /\ UNCHANGED c_exc
       ELSE c_pc' = "except" /\ c_exc' = "ConnectionError"
    /\ UNCHANGED <<c_resp, c_result>>
    /\ UNCHANGED checkFrame

\* attestation.py:252  response.raise_for_status()
IacRaiseForStatus ==
    /\ c_pc = "got"
    /\ IF RaisesForStatus(c_resp)
       THEN c_pc' = "except" /\ c_exc' = "HTTPError"
       ELSE c_pc' = "json" /\ UNCHANGED c_exc
    /\ UNCHANGED <<c_query, c_resp, c_queries, c_result>>
    /\ UNCHANGED checkFrame

\* attestation.py:253-257 and 265: the first message decides; without a
\* message the call falls through to return False.
IacMessages ==
    /\ c_pc = "json"
    /\ c_pc' = "returned"
    /\ c_result' = IF c_resp.messages # <<>>
                   THEN IsAttestationReady(c_resp.messages[1])
                   ELSE FALSE
    /\ UNCHANGED <<c_query, c_resp, c_queries, c_exc>>
    /\ UNCHANGED checkFrame

\* attestation.py:258-265: a caught exception is logged and the call returns
\* False; any other exception leaves the call.
IacExcept ==
    /\ c_pc = "except"
    /\ IF Caught(c_exc)
       THEN c_pc' = "returned" /\ c_result' = FALSE
       ELSE c_pc' = "raised" /\ UNCHANGED c_result
    /\ UNCHANGED <<c_query, c_resp, c_queries, c_exc>>
    /\ UNCHANGED checkFrame

\* One call of fetch_attestation for the same transfer.
CheckFetchStart(t, p, cb) == fa_pc = "idle" /\ FetchStart(t, p, cb)

\* fetch_attestation's first query is answered as is_attestation_complete's was.
CheckFetchRequest ==
    /\ attempt = 1
    /\ \E d \in 0..MaxQueryDur : Request(c_resp, d)

NextCheck ==
    \/ IacGet
    \/ IacRaiseForStatus
    \/ IacMessages
    \/ IacExcept
    \/ \E t \in 0..MaxTimeout, p \in 1..MaxPoll, cb \in BOOLEAN : CheckFetchStart(t, p, cb)
    \/ LoopCheck
    \/ CheckFetchRequest
    \/ Sleep

SpecCheck == InitCheck /\ [][NextCheck]_vars

\* C22: is_attestation_complete never lets a network or API error out and
\* does not retry: it makes at most one query, and when that query fails in
\* transport or is answered with an HTTP error status (404, 429, 5xx) the
\* call has returned False once it has ended.
C22_OneQueryNoErrorOut ==
    /\ c_pc # "raised"
    /\ c_queries <= 1
    /\ (c_pc = "returned" /\ (~c_resp.transport \/ c_resp.code >= 400))
       => (c_result = FALSE /\ c_queries = 1)

\* A call answered 429 has returned False after its single query.
C22_Witness ==
    /\ c_pc = "returned" /\ c_resp.transport /\ c_resp.code = 429
    /\ c_exc = "HTTPError"
    /\ c_queries = 1 /\ c_result = FALSE

\* A success response: status 200 with a first message.
IsSuccessWithMessage(resp) == resp.transport /\ resp.code = 200 /\ resp.messages # <<>>

\* C30: on the same success response is_attestation_complete returns True
\* exactly when fetch_attestation returns on it.
C30_ReadinessAgrees ==
    ( /\ c_pc = "returned"
      /\ IsSuccessWithMessage(c_resp)
      /\ Len(responses) = 1 )
    => (c_result <=> fa_pc = "returned")

\* ===================================================== make_gmx_api_request
\* gmx/retry.py: one call of make_gmx_api_request against endpoints whose
\* answers are chosen freely.

\* retry.py:44-56  GMXRetryConfig defaults, DEFAULT_RETRY_CONFIG (line 75)
DEFAULT_RETRY_CONFIG ==
    [max_retries |-> 3, initial_delay |-> 2, max_delay |-> 30,
     backoff_multiplier |-> 2, full_cycle_retries |-> 2]

\* The configurations tried: the defaults with max_retries and
\* full_cycle_retries chosen by the caller.
RetryConfigs ==
    { [DEFAULT_RETRY_CONFIG EXCEPT !.max_retries = r, !.full_cycle_retries = c] :
        r \in 0..MaxRetries, c \in 0..MaxCycles }

\* retry.py:214-263  the endpoints in the order the cycle tries them
ApiNames == <<"primary", "backup", "fallback", "fallback-2">>

\* retry.py:191-194  what the four URL tables hold for the chain: a URL or None
UrlChoices == [1..Len(ApiNames) -> {None, "https://gmx"}]

\* What one requests.get leads to at lines 110-112: an exception (of
\* requests.get or raise_for_status), or the parsed JSON body of a 200 answer:
\* an object or a list, possibly empty, or None for the body null.
GmxResponses ==
    { [error |-> "ConnectionError", body |-> None],
      [error |-> "HTTPError", body |-> None],
      [error |-> None, body |-> "{}"],
      [error |-> None, body |-> "[tickers]"],
      [error |-> None, body |-> None] }

\* retry.py:223, 237, 251, 265  result is not None
IsResult(result) == result # None

\* retry.py:203  backoff_multiplier ** n
RECURSIVE Pow(_, _)
Pow(b, n) == IF n = 0 THEN 1 ELSE b * Pow(b, n - 1)

Min(a, b) == IF a <= b THEN a ELSE b

\* retry.py:203-204  the wait before cycle number cycle (cycle > 0)
CycleWait(config, cycle) ==
    Min(config.initial_delay * Pow(config.backoff_multiplier, cycle - 1),
        config.max_delay)

InitGmx ==
    /\ FetchIdle /\ BridgeIdle /\ LockIdle /\ SingleIdle /\ MonitorIdle
    /\ PollIdle /\ CheckIdle /\ BlockIdle /\ ReportIdle
    /\ g_pc = "call"
    /\ g_urls \in UrlChoices
    /\ g_config \in RetryConfigs
    /\ g_cycle = 0
    /\ g_ep = 0
    /\ g_attempt = 0
    /\ g_delay = 0
    /\ g_try_error = None
    /\ g_last_error = None
    /\ g_slept = 0
    /\ g_log = <<>>
    /\ g_result = None

gmxFrame == <<fetchVars, bridgeVars, lockVars, singleVars, monitorVars, pollVars,
              checkVars, blockVars, reportVars>>
gmxArgs == <<g_urls, g_config>>

\* retry.py:185-199: without any URL for the chain the call raises ValueError.
GmxEnter ==
    /\ g_pc = "call"
    /\ IF \A e \in 1..Len(ApiNames) : ~Truthy(g_urls[e])
       THEN g_pc' = "value_error"
       ELSE g_pc' = "cycle"
    /\ UNCHANGED <<gmxArgs, g_cycle, g_ep, g_attempt, g_delay, g_try_error,
                   g_last_error, g_slept, g_log, g_result>>
    /\ UNCHANGED gmxFrame

\* retry.py:201-211 and 269: the head of the cycle loop; a cycle after the
\* first starts with a sleep; after the last cycle RuntimeError is raised.
GmxCycle ==
    /\ g_pc = "cycle"
    /\ IF g_cycle < g_config.full_cycle_retries
       THEN /\ g_pc' = "endpoint"
            /\ g_ep' = 1
            /\ g_slept' = IF g_cycle > 0 THEN g_slept + CycleWait(g_config, g_cycle)
                          ELSE g_slept
       ELSE /\ g_pc' = "runtime_error"
            /\ UNCHANGED <<g_ep, g_slept>>
    /\ UNCHANGED <<gmxArgs, g_cycle, g_attempt, g_delay, g_try_error, g_last_error,
                   g_log, g_result>>
    /\ UNCHANGED gmxFrame

\* retry.py:214, 228, 242, 256: an endpoint with a URL is tried
\* (_try_api_with_retries, lines 104-105), one without is skipped; after the
\* fourth the next cycle begins.
GmxEndpoint ==
    /\ g_pc = "endpoint"
    /\ IF g_ep > Len(ApiNames)
       THEN /\ g_pc' = "cycle"
            /\ g_cycle' = g_cycle + 1
            /\ UNCHANGED <<g_ep, g_attempt, g_delay, g_try_error>>
       ELSE IF Truthy(g_urls[g_ep])
       THEN /\ g_pc' = "try"
            /\ g_attempt' = 0
            /\ g_delay' = g_config.initial_delay
            /\ g_try_error' = None
            /\ UNCHANGED <<g_cycle, g_ep>>
       ELSE /\ g_ep' = g_ep + 1
            /\ UNCHANGED <<g_pc, g_cycle, g_attempt, g_delay, g_try_error>>
    /\ UNCHANGED <<gmxArgs, g_last_error, g_slept, g_log, g_result>>
    /\ UNCHANGED gmxFrame

\* retry.py:107 and 135: the head of the attempt loop; when the attempts are
\* used up (None, last_error) goes back to the caller, which notes the error
\* and moves to the next endpoint (lines 223-225).
GmxTry ==
    /\ g_pc = "try"
    /\ IF g_attempt < g_config.max_retries
       THEN /\ g_pc' = "request"
            /\ UNCHANGED <<g_ep, g_last_error, g_result>>
       ELSE IF IsResult(None)
       THEN /\ g_pc' = "returned"
            /\ g_result' = None
            /\ UNCHANGED <<g_ep, g_last_error>>
       ELSE /\ g_pc' = "endpoint"
            /\ g_ep' = g_ep + 1
            /\ g_last_error' = g_try_error
            /\ UNCHANGED g_result
    /\ UNCHANGED <<gmxArgs, g_cycle, g_attempt, g_delay, g_try_error, g_slept, g_log>>
    /\ UNCHANGED gmxFrame

\* retry.py:108-126: one requests.get. A parsed body goes back to the caller
\* with the error None (112); the caller returns it when it is not None (lines
\* 223-224) and otherwise notes the error None and moves to the next endpoint
\* (225). An exception is kept in last_error, and before another attempt the
\* loop sleeps and doubles the delay up to max_delay.
GmxRequest(resp) ==
    /\ g_pc = "request"
    /\ g_log' = Append(g_log, [cycle |-> g_cycle, ep |-> g_ep, attempt |-> g_attempt,
                               ok |-> resp.error = None, body |-> resp.body])
    /\ IF resp.error = None
       THEN /\ IF IsResult(resp.body)
               THEN /\ g_pc' = "returned"
                    /\ g_result' = resp.body
                    /\ UNCHANGED <<g_ep, g_last_error>>
               ELSE /\ g_pc' = "endpoint"
                    /\ g_ep' = g_ep + 1
                    /\ g_last_error' = None
                    /\ UNCHANGED g_result
            /\ UNCHANGED <<g_attempt, g_delay, g_try_error, g_slept>>
       ELSE /\ g_try_error' = resp.error
            /\ g_pc' = "try"
            /\ g_attempt' = g_attempt + 1
            /\ IF g_attempt < g_config.max_retries - 1
               THEN /\ g_slept' = g_slept + g_delay
                    /\ g_delay' = Min(g_delay * g_config.backoff_multiplier,
                                      g_config.max_delay)
               ELSE UNCHANGED <<g_slept, g_delay>>
            /\ UNCHANGED <<g_ep, g_last_error, g_result>>
    /\ UNCHANGED <<gmxArgs, g_cycle>>
    /\ UNCHANGED gmxFrame

NextGmx ==
    \/ GmxEnter
    \/ GmxCycle
    \/ GmxEndpoint
    \/ GmxTry
    \/ \E resp \in GmxResponses : GmxRequest(resp)

SpecGmx == InitGmx /\ [][NextGmx]_vars

\* The endpoints that have a URL, in the order of the cycle.
ConfiguredEndpoints == SelectSeq(<<1, 2, 3, 4>>, LAMBDA e : Truthy(g_urls[e]))

\* The request number i of a call in which every request fails: its cycle,
\* endpoint and attempt.
Scheduled(i) ==
    LET k == Len(ConfiguredEndpoints)
        r == g_config.max_retries
    IN  [cycle |-> (i - 1) \div (k * r),
         ep |-> ConfiguredEndpoints[((i - 1) % (k * r)) \div r + 1],
         attempt |-> (i - 1) % r]

\* C24 as stated: the requests go to the configured endpoints in the order primary,
\* backup, fallback, fallback-2, max_retries attempts each, for at most
\* full_cycle_retries cycles; every request before the last one failed, the
\* call returns the body of the first request that succeeds and issues none
\* after it, and RuntimeError is raised only when every attempt on every
\* configured endpoint in every cycle has been made and has failed.
C24_FailoverOrderAndBounds ==
    /\ \A i \in 1..Len(g_log) :
          /\ g_log[i].cycle = Scheduled(i).cycle
          /\ g_log[i].ep = Scheduled(i).ep
          /\ g_log[i].attempt = Scheduled(i).attempt
          /\ g_log[i].cycle < g_config.full_cycle_retries
          /\ i < Len(g_log) => ~g_log[i].ok
    /\ (g_log # <<>> /\ Last(g_log).ok)
       => (g_pc = "returned" /\ g_result = Last(g_log).body)
    /\ g_pc = "returned" => (g_log # <<>> /\ Last(g_log).ok)
    /\ g_pc = "runtime_error"
       => /\ Len(g_log) = g_config.full_cycle_retries * Len(ConfiguredEndpoints)
                          * g_config.max_retries
          /\ \A i \in 1..Len(g_log) : ~g_log[i].ok

\* ===================================================== the big-block helpers
\* hyperliquid/block.py: one deployer uses the helpers for one address from
\* one thread: with-blocks of big_blocks_enabled and of
\* big_blocks_for_deployment, nested or one after the other, and direct calls
\* of enable_big_blocks, disable_big_blocks and set_big_blocks, outside the
\* with-blocks or in their bodies, always with the same web3 connection and
\* the same is_mainnet. The flag is the one Hyperliquid holds for the address
\* (the mainnet and testnet hosts are not told apart: is_mainnet is kept in
\* each post). An evmUserModify post is accepted ("ok"), answered
\* 200 with status err ("err"), or answered with an HTTP error status
\* ("http_error").

PostOutcomes == {"ok", "err", "http_error"}

\* block.py:45  HYPEREVM_CHAIN_IDS
HYPEREVM_CHAIN_IDS == {998, 999}

\* block.py:83-92  is_hyperevm
IsHyperevm(chain_id) == chain_id \in HYPEREVM_CHAIN_IDS

\* The chains web3 may be connected to: Ethereum, HyperEVM testnet and mainnet.
BlockChainIds == {1, 998, 999}

\* block gas limits web3.eth.get_block("latest") may show: a small block, a
\* large block.
BlockGasLimits == {3000000, 30000000}

NoDeployment == [pc |-> "outside", toggles |-> FALSE, is_mainnet |-> FALSE, inner |-> FALSE]

InitBlock ==
    /\ FetchIdle /\ BridgeIdle /\ LockIdle /\ SingleIdle /\ MonitorIdle
    /\ PollIdle /\ CheckIdle /\ GmxIdle /\ ReportIdle
    /\ bb_pc = "outside"
    /\ bb_flag \in BOOLEAN
    /\ bb_before = bb_flag
    /\ bb_posts_before = 0
    /\ bb_web3 \in BOOLEAN
    /\ bb_mainnet \in BOOLEAN
    /\ bb_chain_id \in BlockChainIds
    /\ bb_anvil \in BOOLEAN
    /\ bb_already = FALSE
    /\ bb_raising = "none"
    /\ bb_posts = <<>>
    /\ bb_entries = 0
    /\ bb_fd = NoDeployment
    /\ bb_returned = "None"
    /\ bb_calls = 0

blockFrame == <<fetchVars, bridgeVars, lockVars, singleVars, monitorVars, pollVars,
                checkVars, gmxVars, reportVars>>
blockArgs == <<bb_web3, bb_mainnet, bb_chain_id, bb_anvil>>
\* What a step of big_blocks_enabled's own code leaves alone.
blockOthers == <<bb_fd, bb_returned, bb_calls>>
\* What a direct call, and a step of big_blocks_for_deployment, leaves alone.
blockEnabledVars == <<bb_pc, bb_before, bb_posts_before, blockArgs, bb_already,
                      bb_raising, bb_entries>>

\* block.py:109-113  fetch_using_big_blocks: eth_usingBigBlocks for the address
FetchUsingBigBlocks(flag) == flag

\* block.py:201-236  set_big_blocks(enable): the post, raise_for_status, the
\* JSON answer; only an accepted action sets the flag.
SetBigBlocks(flag, enable, out) == IF out = "ok" THEN enable ELSE flag

\* The evmUserModify action set_big_blocks posts (block.py:201-232), and the
\* function that called set_big_blocks.
Post(enable, is_mainnet, out, by) ==
    [enable |-> enable, is_mainnet |-> is_mainnet, out |-> out, by |-> by]

\* The deployer's own code is running: outside every with-block of
\* big_blocks_enabled or in the body of one.
InBody == bb_pc \in {"body", "skipped_body"}
UserCode == bb_pc \in {"outside", "left", "enter_failed"} \/ InBody

\* The with statement is reached: block.py:266-269.
BbEnter ==
    /\ bb_pc \in {"outside", "left", "enter_failed"}
    /\ bb_entries + bb_calls < MaxUses
    /\ bb_entries' = bb_entries + 1
    /\ bb_pc' = "check"
    /\ bb_before' = bb_flag
    /\ bb_posts_before' = Len(bb_posts)
    /\ bb_already' = FALSE
    /\ bb_raising' = "none"
    /\ bb_fd' = IF bb_fd.pc = "body" THEN [bb_fd EXCEPT !.inner = FALSE] ELSE bb_fd
    /\ UNCHANGED <<bb_flag, blockArgs, bb_posts, bb_returned, bb_calls>>
    /\ UNCHANGED blockFrame

\* block.py:270-273: the flag is read only when a web3 instance was passed.
BbCheck ==
    /\ bb_pc = "check"
    /\ bb_already' = IF bb_web3 THEN FetchUsingBigBlocks(bb_flag) ELSE FALSE
    /\ bb_pc' = IF bb_already' THEN "skipped_body" ELSE "enable"
    /\ UNCHANGED <<bb_flag, bb_before, bb_posts_before, blockArgs, bb_raising, bb_posts,
                   bb_entries, blockOthers>>
    /\ UNCHANGED blockFrame

\* block.py:277  set_big_blocks(enable=True): its HTTP error leaves the with
\* statement before the body runs; after any 200 answer the body runs.
BbEnable(out) ==
    /\ bb_pc = "enable"
    /\ bb_flag' = SetBigBlocks(bb_flag, TRUE, out)
    /\ bb_posts' = Append(bb_posts, Post(TRUE, bb_mainnet, out, "big_blocks_enabled"))
    /\ bb_pc' = IF out = "http_error" THEN "enter_failed" ELSE "body"
    /\ bb_raising' = IF out = "http_error" THEN "api" ELSE "none"
    /\ UNCHANGED <<bb_before, bb_posts_before, blockArgs, bb_already, bb_entries,
                   blockOthers>>
    /\ UNCHANGED blockFrame

\* No with-block of big_blocks_for_deployment entered in the body is open.
BodyClosed == ~(bb_fd.pc = "body" /\ bb_fd.inner)

\* block.py:278-279: the body of the with statement ends or raises; either
\* way the finally clause runs.
BbBody(raises) ==
    /\ bb_pc = "body"
    /\ BodyClosed
    /\ bb_raising' = IF raises THEN "body" ELSE "none"
    /\ bb_pc' = "finally"
    /\ UNCHANGED <<bb_flag, bb_before, bb_posts_before, blockArgs, bb_already, bb_posts,
                   bb_entries, blockOthers>>
    /\ UNCHANGED blockFrame

\* block.py:280-281  finally: set_big_blocks(enable=False); its HTTP error
\* replaces the exception of the body.
BbFinally(out) ==
    /\ bb_pc = "finally"
    /\ bb_flag' = SetBigBlocks(bb_flag, FALSE, out)
    /\ bb_posts' = Append(bb_posts, Post(FALSE, bb_mainnet, out, "big_blocks_enabled"))
    /\ bb_pc' = "left"
    /\ bb_raising' = IF out = "http_error" THEN "api" ELSE bb_raising
    /\ UNCHANGED <<bb_before, bb_posts_before, blockArgs, bb_already, bb_entries,
                   blockOthers>>
    /\ UNCHANGED blockFrame

\* block.py:274-275: already enabled, the body runs without any toggle; its
\* exception leaves the with statement as it is.
BbSkippedBody(raises) ==
    /\ bb_pc = "skipped_body"
    /\ BodyClosed
    /\ bb_raising' = IF raises THEN "body" ELSE "none"
    /\ bb_pc' = "left"
    /\ UNCHANGED <<bb_flag, bb_before, bb_posts_before, blockArgs, bb_already, bb_posts,
                   bb_entries, blockOthers>>
    /\ UNCHANGED blockFrame

\* block.py:166-236  set_big_blocks called directly: the answer is returned,
\* an HTTP error status raises.
SetBigBlocksCall(enable, out) ==
    /\ UserCode
    /\ bb_entries + bb_calls < MaxUses
    /\ bb_calls' = bb_calls + 1
    /\ bb_flag' = SetBigBlocks(bb_flag, enable, out)
    /\ bb_posts' = Append(bb_posts, Post(enable, bb_mainnet, out, "set_big_blocks"))
    /\ bb_returned' = IF out = "http_error" THEN "raised" ELSE out
    /\ UNCHANGED <<blockEnabledVars, bb_fd>>
    /\ UNCHANGED blockFrame

\* block.py:284-334  enable_big_blocks(web3, private_key): False on a chain
\* that is not HyperEVM, on an Anvil fork, with the flag already set, and with
\* a block gas limit of 10M or more; else the enable is posted and True
\* returned.
EnableBigBlocks(gas_limit, out) ==
    /\ UserCode
    /\ bb_entries + bb_calls < MaxUses
    /\ bb_calls' = bb_calls + 1
    /\ IF \/ ~IsHyperevm(bb_chain_id)
          \/ bb_anvil
          \/ FetchUsingBigBlocks(bb_flag)
          \/ gas_limit >= 10000000
       THEN /\ bb_returned' = "False"
            /\ UNCHANGED <<bb_flag, bb_posts>>
       ELSE /\ bb_flag' = SetBigBlocks(bb_flag, TRUE, out)
            /\ bb_posts' = Append(bb_posts,
                                  Post(TRUE, bb_chain_id = 999, out, "enable_big_blocks"))
            /\ bb_returned' = IF out = "http_error" THEN "raised" ELSE "True"
    /\ UNCHANGED <<blockEnabledVars, bb_fd>>
    /\ UNCHANGED blockFrame

\* block.py:337-354  disable_big_blocks(web3, private_key): the disable is
\* posted whatever the chain and the flag.
DisableBigBlocks(out) ==
    /\ UserCode
    /\ bb_entries + bb_calls < MaxUses
    /\ bb_calls' = bb_calls + 1
    /\ bb_flag' = SetBigBlocks(bb_flag, FALSE, out)
    /\ bb_posts' = Append(bb_posts, Post(FALSE, bb_chain_id = 999, out, "disable_big_blocks"))
    /\ bb_returned' = IF out = "http_error" THEN "raised" ELSE "None"
    /\ UNCHANGED <<blockEnabledVars, bb_fd>>
    /\ UNCHANGED blockFrame

\* block.py:383-396  the with statement of big_blocks_for_deployment is
\* reached: nothing is posted on a chain that is not HyperEVM and on an Anvil
\* fork; else the enable is posted without a look at the flag, and its HTTP
\* error leaves the with statement before the body runs.
FdEnter(out) ==
    /\ UserCode
    /\ bb_fd.pc # "body"
    /\ bb_entries + bb_calls < MaxUses
    /\ bb_calls' = bb_calls + 1
    /\ IF ~IsHyperevm(bb_chain_id) \/ bb_anvil
       THEN /\ out = "ok"
            /\ bb_fd' = [pc |-> "body", toggles |-> FALSE, is_mainnet |-> FALSE,
                         inner |-> InBody]
            /\ UNCHANGED <<bb_flag, bb_posts>>
       ELSE /\ bb_flag' = SetBigBlocks(bb_flag, TRUE, out)
            /\ bb_posts' = Append(bb_posts,
                                  Post(TRUE, bb_chain_id = 999, out, "big_blocks_for_deployment"))
            /\ bb_fd' = [pc |-> IF out = "http_error" THEN "enter_failed" ELSE "body",
                         toggles |-> TRUE, is_mainnet |-> bb_chain_id = 999,
                         inner |-> InBody]
    /\ UNCHANGED <<blockEnabledVars, bb_returned>>
    /\ UNCHANGED blockFrame

\* block.py:385-386 and 397-399: the body of big_blocks_for_deployment ends
\* or raises; where the enable was posted the finally clause posts the
\* disable.
FdLeave(out) ==
    /\ bb_fd.pc = "body"
    /\ IF bb_fd.inner THEN InBody ELSE bb_pc \in {"outside", "left", "enter_failed"}
    /\ bb_fd' = [bb_fd EXCEPT !.pc = "left"]
    /\ IF bb_fd.toggles
       THEN /\ bb_flag' = SetBigBlocks(bb_flag, FALSE, out)
            /\ bb_posts' = Append(bb_posts,
                                  Post(FALSE, bb_fd.is_mainnet, out, "big_blocks_for_deployment"))
       ELSE /\ out = "ok"
            /\ UNCHANGED <<bb_flag, bb_posts>>
    /\ UNCHANGED <<blockEnabledVars, bb_returned, bb_calls>>
    /\ UNCHANGED blockFrame

NextBlock ==
    \/ BbEnter
    \/ BbCheck
    \/ \E out \in PostOutcomes : BbEnable(out)
    \/ \E raises \in BOOLEAN : BbBody(raises)
    \/ \E out \in PostOutcomes : BbFinally(out)
    \/ \E raises \in BOOLEAN : BbSkippedBody(raises)
    \/ \E enable \in BOOLEAN, out \in PostOutcomes : SetBigBlocksCall(enable, out)
    \/ \E gas_limit \in BlockGasLimits, out \in PostOutcomes :
          EnableBigBlocks(gas_limit, out)
    \/ \E out \in PostOutcomes : DisableBigBlocks(out)
    \/ \E out \in PostOutcomes : FdEnter(out)
    \/ \E out \in PostOutcomes : FdLeave(out)

SpecBlock == InitBlock /\ [][NextBlock]_vars

\* The actions posted since the with statement of big_blocks_enabled was
\* reached are those of big_blocks_enabled itself, and Hyperliquid accepted
\* each of them.
OwnPostsAccepted ==
    \A i \in (bb_posts_before + 1)..Len(bb_posts) :
        bb_posts[i].by = "big_blocks_enabled" /\ bb_posts[i].out = "ok"

\* C25: when a with-block of big_blocks_enabled has been left, with or without
\* an exception of its body, nothing but big_blocks_enabled itself posted an
\* action meanwhile and Hyperliquid accepted every action posted, the flag is
\* what it was before the with statement was reached.
C25_OriginalStateRestored ==
    ( /\ bb_pc = "left"
      /\ bb_raising \in {"none", "body"}
      /\ OwnPostsAccepted )
    => bb_flag = bb_before

\* ============================================ the phase reports of one call
\* bridge.py:584-705 in production mode, seen from the progress tracker: each
\* destination is reported burning, then waiting_for_indexing when its
\* attestation wait is submitted, then whatever its fetch_attestation call
\* notifies, poll after poll, then receiving and complete. The service
\* answers freely; the attestation timeout is long enough for MaxReports
\* queries. _update_phase runs under its lock, so a report is one step; a
\* wait counts its attempt and queries in one step and reports in another.

InitReports ==
    /\ FetchIdle /\ CallIdle /\ LockIdle /\ SingleIdle /\ MonitorIdle
    /\ PollIdle /\ CheckIdle /\ GmxIdle /\ BlockIdle
    /\ \E n \in 1..MaxDest :
          /\ transfer_phases = [i \in 1..n |-> "burning"]
          /\ poll_counts = [i \in 1..n |-> 0]
          /\ progress_bar = [n |-> 0, total |-> n * Len(CCTPBridgePhase),
                             desc |-> <<>>, postfix |-> 0]
          /\ r_stage = [i \in 1..n |-> "burn"]
          /\ r_attempt = [i \in 1..n |-> 0]

reportFrame == <<fetchVars, lockVars, singleVars, monitorVars, pollVars, checkVars,
                 gmxVars, blockVars, destinations, simulate,
                 test_attesters, max_workers_arg, max_workers, bpc, bidx, approve_tx, burn_tx, receive_tx,
                 receive_sent, burn_results, task, task_at, task_attempt, fetched,
                 indexed_results, attestation_data, receive_tx_hashes, collected,
                 results, error>>

\* bridge.py:586-598: the burns go in input order; each is reported first.
ReportBurning(i) ==
    /\ r_stage[i] = "burn"
    /\ \A j \in 1..(i - 1) : r_stage[j] # "burn"
    /\ UpdatePhase(i, "burning", 0)
    /\ r_stage' = [r_stage EXCEPT ![i] = "burnt"]
    /\ UNCHANGED r_attempt
    /\ UNCHANGED reportFrame

\* bridge.py:641-643: after all burns, the submit loop reports
\* waiting_for_indexing and submits the wait.
ReportSubmitted(i) ==
    /\ r_stage[i] = "burnt"
    /\ \A j \in DOMAIN r_stage : r_stage[j] # "burn"
    /\ \A j \in 1..(i - 1) : r_stage[j] # "burnt"
    /\ UpdatePhase(i, "waiting_for_indexing", 0)
    /\ r_stage' = [r_stage EXCEPT ![i] = "submitted"]
    /\ UNCHANGED r_attempt
    /\ UNCHANGED reportFrame

\* attestation.py:158: the first _notify of the wait, with attempt 0.
ReportWaitStarts(i) ==
    /\ r_stage[i] = "submitted"
    /\ OnPhase(i, "waiting_for_indexing", 0)
    /\ r_stage' = [r_stage EXCEPT ![i] = "polling"]
    /\ UNCHANGED r_attempt
    /\ UNCHANGED reportFrame

\* attestation.py:161-180: the wait counts one more attempt and issues its
\* query; it waits in requests.get, no lock held.
ReportQuery(i) ==
    /\ r_stage[i] = "polling"
    /\ SumSeq(r_attempt) < MaxReports
    /\ r_stage' = [r_stage EXCEPT ![i] = "querying"]
    /\ r_attempt' = [r_attempt EXCEPT ![i] = @ + 1]
    /\ UNCHANGED trackerVars
    /\ UNCHANGED reportFrame

\* attestation.py:180-221: the query is answered resp; what it notifies
\* reaches on_phase (bridge.py:621-629) with the attempt counted before the
\* query.
ReportPoll(i, resp) ==
    /\ r_stage[i] = "querying"
    /\ LET h == HandleResponse(resp) IN
       /\ IF h.notify = <<>>
          THEN UNCHANGED trackerVars
          ELSE OnPhase(i, h.notify[1], r_attempt[i])
       /\ r_stage' = [r_stage EXCEPT ![i] =
                        IF h.next = "returned" THEN "attested"
                        ELSE IF h.next = "sleep" THEN "polling"
                        ELSE "failed"]
    /\ UNCHANGED r_attempt
    /\ UNCHANGED reportFrame

\* bridge.py:685: the receives start once every wait has returned.
ReportReceiving(i) ==
    /\ r_stage[i] = "attested"
    /\ \A j \in DOMAIN r_stage : r_stage[j] \in {"attested", "receiving", "done"}
    /\ UpdatePhase(i, "receiving", 0)
    /\ r_stage' = [r_stage EXCEPT ![i] = "receiving"]
    /\ UNCHANGED r_attempt
    /\ UNCHANGED reportFrame

\* bridge.py:694: the receive transaction went through.
ReportComplete(i) ==
    /\ r_stage[i] = "receiving"
    /\ UpdatePhase(i, "complete", 0)
    /\ r_stage' = [r_stage EXCEPT ![i] = "done"]
    /\ UNCHANGED r_attempt
    /\ UNCHANGED reportFrame

NextReports ==
    \/ \E i \in DOMAIN r_stage : ReportBurning(i)
    \/ \E i \in DOMAIN r_stage : ReportSubmitted(i)
    \/ \E i \in DOMAIN r_stage : ReportWaitStarts(i)
    \/ \E i \in DOMAIN r_stage : ReportQuery(i)
    \/ \E i \in DOMAIN r_stage, resp \in Responses : ReportPoll(i, resp)
    \/ \E i \in DOMAIN r_stage : ReportReceiving(i)
    \/ \E i \in DOMAIN r_stage : ReportComplete(i)

SpecReports == InitReports /\ [][NextReports]_vars

\* C26: the cumulative advancement counter of the progress bar never exceeds
\* its total, the number of destinations times the number of phases.
C26_CounterWithinTotal ==
    progress_bar.n <= progress_bar.total

\* C27: a transfer is shown as attested only when its attestation wait has
\* returned the attestation; an answer that is complete without a usable
\* attestation leaves its phase alone.
C27_AttestedOnlyWithAttestation ==
    \A i \in DOMAIN r_stage :
        transfer_phases[i] = "attested" => r_stage[i] = "attested"

====
